---- MODULE Spec2Model ----
(***************************************************************************)
(* Model of the heuristic core of the logistics assistant backend:         *)
(*   document_processor.py  _is_section_boundary, intelligent_chunk,       *)
(*                          process_and_store                              *)
(*   extractor.py           _is_junk_value, _find_value_after_label,       *)
(*                          the rate cascade of _extract_with_regex        *)
(* A Python str is a sequence of one-character strings.  A regular         *)
(* expression is a tree of records, matched by a backtracking matcher that *)
(* returns every way to match in the order Python's re module tries them,  *)
(* so that the first element is the match re.match / re.search reports.    *)
(***************************************************************************)
EXTENDS Integers, Sequences, FiniteSets, TLC

VARIABLES
    pc,              \* where the call under study stands: before it, or its outcome
    text,            \* the text argument (the raw text of the document)
    chunk_size,      \* intelligent_chunk / process_and_store argument
    chunk_overlap,   \* intelligent_chunk / process_and_store argument
    collection,      \* the ChromaDB collection process_and_store fills
    line,            \* _is_section_boundary argument
    val,             \* _is_junk_value argument
    label_patterns,  \* _find_value_after_label argument (the name of the list)
    multiline,       \* _find_value_after_label argument
    ret,             \* what the call returned or raised
    result,          \* the result dict of _extract_with_regex
    answer,          \* guardrails.py: the generated answer
    confidence,      \* check_guardrails argument, in ten-thousandths
    similarity_scores, \* the retrieved chunks' scores, in ten-thousandths
    threshold,       \* check_guardrails argument, in ten-thousandths
    source_texts,    \* the retrieved chunks' texts
    chunks,          \* the retrieved chunks
    doc_lines,       \* _find_next_value_line argument lines
    start_index,     \* _find_next_value_line argument start_idx
    max_skip,        \* _find_next_value_line argument skip_count
    api_key,         \* the environment variable OPENAI_API_KEY
    openai,          \* what the OpenAI library does in extract_structured_data
    llm_text         \* the text _extract_with_llm was called with

vars == <<pc, text, chunk_size, chunk_overlap, collection, line, val,
          label_patterns, multiline, ret, result, answer, confidence,
          similarity_scores, threshold, source_texts, chunks, doc_lines,
          start_index, max_skip, api_key, openai, llm_text>>
\* The arguments of the guardrails.py functions
guardrail_args == <<answer, confidence, similarity_scores, threshold, source_texts, chunks>>
\* The arguments of _find_next_value_line
lookahead_args == <<doc_lines, start_index, max_skip>>
\* What extract_structured_data meets
llm_state == <<api_key, openai, llm_text>>
other_args == <<guardrail_args, lookahead_args, llm_state>>

\* Python's None (and a variable not in use): no str, whose elements are all
\* single characters, equals it.
None == <<"None">>
\* No guardrails.py function is being called
NoGuardrailCall ==
    /\ answer = None /\ confidence = 0 /\ similarity_scores = <<>>
    /\ threshold = 0 /\ source_texts = <<>> /\ chunks = <<>>
\* _find_next_value_line is not being called
NoLookaheadCall == doc_lines = <<>> /\ start_index = 0 /\ max_skip = 0
\* extract_structured_data is not being called
NoStructuredCall == api_key = None /\ openai = None /\ llm_text = None
NoOtherCall == NoGuardrailCall /\ NoLookaheadCall /\ NoStructuredCall

(***************************************************************************)
(* Characters and the str methods the code uses                            *)
(***************************************************************************)
UpperSeq == <<"A","B","C","D","E","F","G","H","I","J","K","L","M","N","O","P","Q","R","S","T","U","V","W","X","Y","Z">>
LowerSeq == <<"a","b","c","d","e","f","g","h","i","j","k","l","m","n","o","p","q","r","s","t","u","v","w","x","y","z">>
DigitSeq == <<"0","1","2","3","4","5","6","7","8","9">>

Range(s) == {s[i] : i \in DOMAIN s}
Upper == Range(UpperSeq)
Lower == Range(LowerSeq)
Digit == Range(DigitSeq)
\* str.isspace() / regex \s over the characters of the model's alphabet
Space == {" ", "\n", "\t"}
\* regex \w
WordCh == Upper \cup Lower \cup Digit \cup {"_"}

\* str.lower() / str.upper() on one character
LowerCh(c) == IF c \in Upper THEN LowerSeq[CHOOSE i \in 1..26 : UpperSeq[i] = c] ELSE c
UpperCh(c) == IF c \in Lower THEN UpperSeq[CHOOSE i \in 1..26 : LowerSeq[i] = c] ELSE c
StrLower(s) == [i \in 1..Len(s) |-> LowerCh(s[i])]
StrUpper(s) == [i \in 1..Len(s) |-> UpperCh(s[i])]

Min(a, b) == IF a < b THEN a ELSE b
Max(a, b) == IF a > b THEN a ELSE b

\* s[i:j] with 0 <= i, Python's clamping of the upper end
Slice(s, i, j) == SubSeq(s, i + 1, Min(j, Len(s)))

\* str.lstrip(), str.rstrip(), str.strip()
LStrip(s) ==
    IF \A i \in DOMAIN s : s[i] \in Space THEN <<>>
    ELSE SubSeq(s, CHOOSE i \in DOMAIN s :
                       s[i] \notin Space /\ \A j \in 1..(i - 1) : s[j] \in Space, Len(s))
RStrip(s) ==
    IF \A i \in DOMAIN s : s[i] \in Space THEN <<>>
    ELSE SubSeq(s, 1, CHOOSE i \in DOMAIN s :
                          s[i] \notin Space /\ \A j \in (i + 1)..Len(s) : s[j] \in Space)
Strip(s) == RStrip(LStrip(s))

\* s.startswith(p)
StartsWith(s, p) == Len(s) >= Len(p) /\ SubSeq(s, 1, Len(p)) = p
\* p in s
Contains(s, p) == \E i \in 0..(Len(s) - Len(p)) : SubSeq(s, i + 1, i + Len(p)) = p
\* s.count(c) for a one-character c
Count(s, c) == Cardinality({i \in DOMAIN s : s[i] = c})

\* sep.join(parts)
RECURSIVE Join(_, _)
Join(parts, sep) ==
    IF parts = <<>> THEN <<>>
    ELSE IF Len(parts) = 1 THEN parts[1]
    ELSE parts[1] \o sep \o Join(Tail(parts), sep)

\* s.split(c) for a one-character separator c: never empty, keeps empty fields
RECURSIVE SplitOn(_, _)
SplitOn(s, c) ==
    IF \A i \in DOMAIN s : s[i] # c THEN <<s>>
    ELSE LET k == CHOOSE i \in DOMAIN s : s[i] = c /\ \A j \in 1..(i - 1) : s[j] # c
         IN <<SubSeq(s, 1, k - 1)>> \o SplitOn(SubSeq(s, k + 1, Len(s)), c)

\* s.split(): the maximal runs of non-whitespace characters
RECURSIVE SplitWs(_)
SplitWs(s) ==
    LET t == LStrip(s)
    IN IF t = <<>> THEN <<>>
       ELSE LET n == IF \A i \in DOMAIN t : t[i] \notin Space THEN Len(t)
                     ELSE (CHOOSE i \in DOMAIN t :
                               t[i] \in Space /\ \A j \in 1..(i - 1) : t[j] \notin Space) - 1
            IN <<SubSeq(t, 1, n)>> \o SplitWs(SubSeq(t, n + 1, Len(t)))

\* str.isupper(): at least one cased character and no lower-case one
IsUpper(s) == (\E i \in DOMAIN s : s[i] \in Upper) /\ (\A i \in DOMAIN s : s[i] \notin Lower)

(***************************************************************************)
(* Regular expressions (Python's re): syntax trees                         *)
(***************************************************************************)
\* one character of the set cs ([...]), or with neg one outside it ([^...])
ReSet(cs) == [t |-> "set", cs |-> cs, neg |-> FALSE]
ReNot(cs) == [t |-> "set", cs |-> cs, neg |-> TRUE]
ReAny == ReNot({"\n"})                         \* .
ReWs == ReSet(Space)                           \* \s
ReNonWs == ReNot(Space)                        \* \S
ReDigit == ReSet(Digit)                        \* \d
ReWord == ReSet(WordCh)                        \* \w
ReSeq(rs) == [t |-> "seq", rs |-> rs]          \* r1 r2 ...
ReAlt(rs) == [t |-> "alt", rs |-> rs]          \* r1|r2|...
\* r{lo,hi}, hi = -1 for no upper limit; lazy for r{lo,hi}?
ReRep(r, lo, hi) == [t |-> "rep", r |-> r, lo |-> lo, hi |-> hi, lazy |-> FALSE]
ReLazy(r, lo, hi) == [t |-> "rep", r |-> r, lo |-> lo, hi |-> hi, lazy |-> TRUE]
ReStar(r) == ReRep(r, 0, -1)                   \* r*
RePlus(r) == ReRep(r, 1, -1)                   \* r+
ReOpt(r) == ReRep(r, 0, 1)                     \* r?
ReGrp(n, r) == [t |-> "grp", n |-> n, r |-> r] \* the n-th capturing group (r)
ReBol == [t |-> "bol"]                         \* ^
ReEol == [t |-> "eol"]                         \* $
ReBehind(cs) == [t |-> "behind", cs |-> cs]    \* (?<=[...])
ReWordB == [t |-> "wordb"]                     \* \b
\* a literal string
ReLit(s) == [t |-> "lit", s |-> s]
\* one of several literal strings
ReWords(ws) == ReAlt([i \in 1..Len(ws) |-> ReLit(ws[i])])

\* flags: ic = re.IGNORECASE, ml = re.MULTILINE
Flags(ic, ml) == [ic |-> ic, ml |-> ml]
NoFlags == Flags(FALSE, FALSE)
IgnoreCase == Flags(TRUE, FALSE)

\* A matcher state: p characters consumed, g[n] the span <<from, to>> of group n
\* (0-based, to exclusive), <<>> for a group that has not taken part.
MaxGroups == 2
MState(p) == [p |-> p, g |-> [n \in 1..MaxGroups |-> <<>>]]

SetMatches(r, c, fl) ==
    LET hit == c \in r.cs \/ (fl.ic /\ (LowerCh(c) \in r.cs \/ UpperCh(c) \in r.cs))
    IN hit # r.neg

\* Whether the literal character a matches the character c of the text
CharMatches(a, c, fl) == a = c \/ (fl.ic /\ LowerCh(a) = LowerCh(c))

RECURSIVE ReM(_, _, _, _)
RECURSIVE ReAll(_, _, _, _, _, _)
RECURSIVE ReSeqM(_, _, _, _, _)
RECURSIVE ReAltM(_, _, _, _, _)
RECURSIVE ReRepM(_, _, _, _, _)
RECURSIVE ReRepAll(_, _, _, _, _)

\* r{lo,hi} for a one-character r: with run the number of characters from st.p
\* on that r matches (at most hi), the loop can stop after run, run-1, ..., lo
\* characters, tried longest first when greedy and shortest first when lazy.
ReRepSet(r, s, st, fl) ==
    LET cap == IF r.hi = -1 THEN Len(s) - st.p ELSE Min(r.hi, Len(s) - st.p)
        bad == {k \in 1..cap : ~SetMatches(r.r, s[st.p + k], fl)}
        run == IF bad = {} THEN cap ELSE (CHOOSE k \in bad : \A j \in bad : k <= j) - 1
    IN [k \in 1..(run - r.lo + 1) |->
           [st EXCEPT !.p = st.p + (IF r.lazy THEN r.lo + k - 1 ELSE run - k + 1)]]

\* Every way r matches s from state st, in the order the backtracking matcher
\* of Python's re tries them.
ReM(r, s, st, fl) ==
    CASE r.t = "set" ->
           IF st.p < Len(s) /\ SetMatches(r, s[st.p + 1], fl)
           THEN <<[st EXCEPT !.p = st.p + 1]>> ELSE <<>>
      [] r.t = "lit" ->
           IF /\ st.p + Len(r.s) <= Len(s)
              /\ \A i \in DOMAIN r.s : CharMatches(r.s[i], s[st.p + i], fl)
           THEN <<[st EXCEPT !.p = st.p + Len(r.s)]>> ELSE <<>>
      [] r.t = "seq" -> ReSeqM(r.rs, 1, s, <<st>>, fl)
      [] r.t = "alt" -> ReAltM(r.rs, 1, s, st, fl)
      [] r.t = "rep" -> IF r.r.t = "set" THEN ReRepSet(r, s, st, fl)
                        ELSE ReRepM(r, s, st, 0, fl)
      [] r.t = "grp" ->
           LET inner == ReM(r.r, s, st, fl)
           IN [k \in 1..Len(inner) |->
                  [inner[k] EXCEPT !.g[r.n] = <<st.p, inner[k].p>>]]
      [] r.t = "bol" ->
           IF st.p = 0 \/ (fl.ml /\ s[st.p] = "\n") THEN <<st>> ELSE <<>>
      [] r.t = "eol" ->
           IF \/ st.p = Len(s)
              \/ (st.p = Len(s) - 1 /\ s[Len(s)] = "\n")
              \/ (fl.ml /\ st.p < Len(s) /\ s[st.p + 1] = "\n")
           THEN <<st>> ELSE <<>>
      [] r.t = "behind" ->
           IF st.p > 0 /\ s[st.p] \in r.cs THEN <<st>> ELSE <<>>
      [] r.t = "wordb" ->
           IF (st.p > 0 /\ s[st.p] \in WordCh) # (st.p < Len(s) /\ s[st.p + 1] \in WordCh)
           THEN <<st>> ELSE <<>>

\* r from each of the states sts[a..b], in order
ReAll(r, s, sts, a, b, fl) ==
    IF a > b THEN <<>>
    ELSE IF a = b THEN ReM(r, s, sts[a], fl)
    ELSE LET mid == (a + b) \div 2
         IN ReAll(r, s, sts, a, mid, fl) \o ReAll(r, s, sts, mid + 1, b, fl)

ReSeqM(rs, k, s, sts, fl) ==
    IF k > Len(rs) \/ sts = <<>> THEN sts
    ELSE ReSeqM(rs, k + 1, s, ReAll(rs[k], s, sts, 1, Len(sts), fl), fl)

ReAltM(rs, k, s, st, fl) ==
    IF k > Len(rs) THEN <<>>
    ELSE ReM(rs[k], s, st, fl) \o ReAltM(rs, k + 1, s, st, fl)

\* r{lo,hi} in general, n iterations of r.r done; an iteration that consumes
\* nothing ends the loop
ReRepM(r, s, st, n, fl) ==
    LET once == IF r.hi # -1 /\ n >= r.hi THEN <<>>
                ELSE SelectSeq(ReM(r.r, s, st, fl), LAMBDA x : x.p > st.p)
        more == ReRepAll(r, s, once, n + 1, fl)
        stop == IF n >= r.lo THEN <<st>> ELSE <<>>
    IN IF r.lazy THEN stop \o more ELSE more \o stop

ReRepAll(r, s, sts, n, fl) ==
    IF sts = <<>> THEN <<>>
    ELSE ReRepM(r, s, Head(sts), n, fl) \o ReRepAll(r, s, Tail(sts), n, fl)

\* A match object: whether there is a match, its start and end, and its groups
NoMatch == [found |-> FALSE]
Match(from, st) == [found |-> TRUE, start |-> from, end |-> st.p, g |-> st.g]

\* F(v), with v evaluated once however often F uses it
Let(v, F(_)) == CHOOSE y \in {F(x) : x \in {v}} : TRUE

\* re.match(r, s): at the start of s only
ReMatch(r, s, fl) ==
    Let(ReM(r, s, MState(0), fl), LAMBDA ms :
       IF ms = <<>> THEN NoMatch ELSE Match(0, ms[1]))

\* The leftmost match starting in a..b
RECURSIVE ReSearchIn(_, _, _, _, _)
ReSearchIn(r, s, a, b, fl) ==
    IF a > b THEN NoMatch
    ELSE IF a = b
         THEN LET ms == ReM(r, s, MState(a), fl)
              IN IF ms # <<>> THEN Match(a, ms[1]) ELSE NoMatch
    ELSE LET mid == (a + b) \div 2
             left == ReSearchIn(r, s, a, mid, fl)
         IN IF left.found THEN left ELSE ReSearchIn(r, s, mid + 1, b, fl)

\* re.search(r, s) from position pos on
ReSearchFrom(r, s, pos, fl) ==
    Let(r, LAMBDA r1 : Let(s, LAMBDA s1 : ReSearchIn(r1, s1, pos, Len(s1), fl)))
ReSearch(r, s, fl) == ReSearchFrom(r, s, 0, fl)

\* match.group(n): the text of group n, None when the group took no part
Group(s, m, n) == IF m.g[n] = <<>> THEN None ELSE Slice(s, m.g[n][1], m.g[n][2])

\* re.split(r, s) for a pattern without groups whose matches are never empty
RECURSIVE ReSplitFrom(_, _, _, _)
ReSplitFrom(r, s, pos, fl) ==
    LET m == ReSearchFrom(r, s, pos, fl)
    IN IF ~m.found THEN <<Slice(s, pos, Len(s))>>
       ELSE <<Slice(s, pos, m.start)>> \o ReSplitFrom(r, s, m.end, fl)
ReSplit(r, s, fl) == ReSplitFrom(r, s, 0, fl)

\* What a call gives back: a returned value, or the exception it raised
Return(v) == [exc |-> "", value |-> v]
Raise(e) == [exc |-> e, value |-> None]

(***************************************************************************)
(* document_processor.py: section detection                                *)
(***************************************************************************)
\* (?i)^(word\s+(?:a|b|c))
HeaderPhrase(word, alts) ==
    ReSeq(<<ReBol, ReGrp(1, ReSeq(<<ReLit(word), RePlus(ReWs), ReWords(alts)>>))>>)
\* (?i)^(a|b|c)\s
HeaderWord(alts) == ReSeq(<<ReBol, ReGrp(1, ReWords(alts)), ReWs>>)

SECTION_PATTERNS == <<
    HeaderPhrase(<<"s","h","i","p","m","e","n","t">>, <<<<"d","e","t","a","i","l","s">>, <<"i","n","f","o","r","m","a","t","i","o","n">>, <<"s","u","m","m","a","r","y">>>>),
    HeaderPhrase(<<"s","h","i","p","p","e","r">>, <<<<"i","n","f","o","r","m","a","t","i","o","n">>, <<"d","e","t","a","i","l","s">>, <<"n","a","m","e">>>>),
    HeaderPhrase(<<"c","o","n","s","i","g","n","e","e">>, <<<<"i","n","f","o","r","m","a","t","i","o","n">>, <<"d","e","t","a","i","l","s">>, <<"n","a","m","e">>>>),
    HeaderPhrase(<<"c","a","r","r","i","e","r">>, <<<<"i","n","f","o","r","m","a","t","i","o","n">>, <<"d","e","t","a","i","l","s">>, <<"n","a","m","e">>>>),
    HeaderPhrase(<<"r","a","t","e">>, <<<<"c","o","n","f","i","r","m","a","t","i","o","n">>, <<"d","e","t","a","i","l","s">>, <<"s","u","m","m","a","r","y">>>>),
    HeaderPhrase(<<"p","i","c","k","u","p">>, <<<<"d","e","t","a","i","l","s">>, <<"i","n","f","o","r","m","a","t","i","o","n">>, <<"d","a","t","e">>, <<"t","i","m","e">>>>),
    HeaderPhrase(<<"d","e","l","i","v","e","r","y">>, <<<<"d","e","t","a","i","l","s">>, <<"i","n","f","o","r","m","a","t","i","o","n">>, <<"d","a","t","e">>, <<"t","i","m","e">>>>),
    ReSeq(<<ReBol, ReGrp(1, ReSeq(<<ReLit(<<"b","i","l","l">>), RePlus(ReWs), ReLit(<<"o","f">>),
                                    RePlus(ReWs), ReLit(<<"l","a","d","i","n","g">>)>>))>>),
    HeaderPhrase(<<"f","r","e","i","g","h","t">>, <<<<"c","h","a","r","g","e","s">>, <<"d","e","t","a","i","l","s">>, <<"b","i","l","l">>>>),
    HeaderPhrase(<<"s","p","e","c","i","a","l">>, <<<<"i","n","s","t","r","u","c","t","i","o","n","s">>, <<"n","o","t","e","s">>, <<"r","e","q","u","i","r","e","m","e","n","t","s">>>>),
    HeaderPhrase(<<"e","q","u","i","p","m","e","n","t">>, <<<<"t","y","p","e">>, <<"d","e","t","a","i","l","s">>, <<"r","e","q","u","i","r","e","m","e","n","t","s">>>>),
    ReSeq(<<ReBol, ReGrp(1, ReSeq(<<ReLit(<<"t","e","r","m","s">>), RePlus(ReWs), ReLit(<<"a","n","d">>),
                                    RePlus(ReWs), ReLit(<<"c","o","n","d","i","t","i","o","n","s">>)>>))>>),
    HeaderPhrase(<<"p","a","y","m","e","n","t">>, <<<<"t","e","r","m","s">>, <<"d","e","t","a","i","l","s">>>>),
    ReSeq(<<ReBol, ReGrp(1, ReWords(<<<<"i","n","s","u","r","a","n","c","e">>, <<"c","l","a","i","m","s">>, <<"l","i","a","b","i","l","i","t","y">>>>))>>),
    HeaderWord(<<<<"c","o","m","m","o","d","i","t","y">>, <<"c","a","r","g","o">>, <<"g","o","o","d","s">>>>),
    HeaderWord(<<<<"o","r","i","g","i","n">>, <<"d","e","s","t","i","n","a","t","i","o","n">>>>),
    HeaderWord(<<<<"w","e","i","g","h","t">>, <<"d","i","m","e","n","s","i","o","n","s">>>>),
    ReSeq(<<ReBol, ReRep(ReSet({"#"}), 1, 3), ReWs>>)
>>

\* The bounds of the ALL CAPS heuristic: 3 < len(line_stripped) < 80
CapsMinLen == 3
CapsMaxLen == 80

\* 3 <= len(line_stripped) < 80: a mutant of CapsLength
CapsLengthFromThree(n) == CapsMinLen <= n /\ n < CapsMaxLen

\* 3 < len(line_stripped) < 80
CapsLength(n) == CapsMinLen < n /\ n < CapsMaxLen

\* _is_section_boundary(line)
IsSectionBoundary(ln) ==
    LET line_stripped == Strip(ln)
    IN IF line_stripped = <<>> THEN FALSE
       ELSE IF \E k \in DOMAIN SECTION_PATTERNS :
                   ReMatch(SECTION_PATTERNS[k], line_stripped, IgnoreCase).found
       THEN TRUE
       ELSE IsUpper(line_stripped) /\ CapsLength(Len(line_stripped))

(***************************************************************************)
(* document_processor.py: intelligent_chunk                                *)
(***************************************************************************)
\* Step 1, the loop over lines: (sections, current_section) after lines k..
RECURSIVE SplitSections(_, _, _, _)
SplitSections(lines, k, sections, current_section) ==
    IF k > Len(lines)
    THEN IF current_section # <<>>
         THEN Append(sections, Join(current_section, <<"\n">>))
         ELSE sections
    ELSE IF IsSectionBoundary(lines[k]) /\ current_section # <<>>
         THEN SplitSections(lines, k + 1,
                            Append(sections, Join(current_section, <<"\n">>)),
                            <<lines[k]>>)
         ELSE SplitSections(lines, k + 1, sections, Append(current_section, lines[k]))

\* (?<=[.!?])\s+
SentenceEnd == ReSeq(<<ReBehind({".", "!", "?"}), RePlus(ReWs)>>)

\* chunk_size with the overlap forgotten: a mutant of WindowStep
WindowStepNoOverlap(size, overlap) == size

\* The step of the character-level split: chunk_size - chunk_overlap
WindowStep(size, overlap) == size - overlap

\* range(0, n, step) as the sequence of its values; step = 0 raises ValueError
RangeFrom0(n, step) ==
    IF step > 0 THEN [k \in 1..((n + step - 1) \div step) |-> (k - 1) * step]
    ELSE <<>>

\* The character-level split of one sentence: the chunks appended by the loop
\* over range(0, len(sentence), chunk_size - chunk_overlap)
SliceWindows(sentence, starts, size) ==
    LET subs == [k \in 1..Len(starts) |->
                    Strip(Slice(sentence, starts[k], starts[k] + size))]
    IN SelectSeq(subs, LAMBDA sub : sub # <<>>)

HardSlice(sentence, size, overlap) ==
    IF WindowStep(size, overlap) = 0 THEN Raise("ValueError")
    ELSE Return(SliceWindows(sentence, RangeFrom0(Len(sentence), WindowStep(size, overlap)), size))

\* len(current_chunk) + len(sentence) <= chunk_size, the joining space not
\* counted: a mutant of Fits
FitsWithoutSpace(current_chunk, sentence, size) ==
    Len(current_chunk) + Len(sentence) <= size

\* len(current_chunk) + len(sentence) + 1 <= chunk_size
Fits(current_chunk, sentence, size) ==
    Len(current_chunk) + Len(sentence) + 1 <= size

\* Step 2, the loop over the sentences of one section, from sentence k on, with
\* the chunks appended so far; the trailing flush of current_chunk included
RECURSIVE PackSentences(_, _, _, _, _, _)
PackSentences(sentences, k, current_chunk, out, size, overlap) ==
    IF k > Len(sentences)
    THEN Return(IF Strip(current_chunk) # <<>> THEN Append(out, Strip(current_chunk)) ELSE out)
    ELSE LET sentence == sentences[k]
         IN IF Fits(current_chunk, sentence, size)
            THEN PackSentences(sentences, k + 1,
                     current_chunk \o (IF current_chunk # <<>> THEN <<" ">> ELSE <<>>) \o sentence,
                     out, size, overlap)
            ELSE LET flushed == IF current_chunk # <<>>
                                THEN Append(out, Strip(current_chunk)) ELSE out
                 IN IF Len(sentence) > size
                    THEN LET subs == HardSlice(sentence, size, overlap)
                         IN IF subs.exc # "" THEN subs
                            ELSE PackSentences(sentences, k + 1, <<>>,
                                               flushed \o subs.value, size, overlap)
                    ELSE PackSentences(sentences, k + 1, sentence, flushed, size, overlap)

\* The section as it was split off, not stripped: a mutant of SectionText
SectionTextUnstripped(section0) == section0

\* section = section.strip()
SectionText(section0) == Strip(section0)

\* The body of the loop over sections: the chunks one section appends
ChunkSection(section0, size, overlap) ==
    LET section == SectionText(section0)
    IN IF section = <<>> THEN Return(<<>>)
       ELSE IF Len(section) <= size THEN Return(<<section>>)
       ELSE PackSentences(ReSplit(SentenceEnd, section, NoFlags), 1, <<>>, <<>>, size, overlap)

RECURSIVE ChunkSections(_, _, _, _, _)
ChunkSections(sections, k, out, size, overlap) ==
    IF k > Len(sections) THEN Return(out)
    ELSE LET r == ChunkSection(sections[k], size, overlap)
         IN IF r.exc # "" THEN r
            ELSE ChunkSections(sections, k + 1, out \o r.value, size, overlap)

\* Chunks shorter than this are filtered out
MinChunkLen == 20

\* Every chunk but the empty one kept: a mutant of KeepChunk
KeepChunkNonEmpty(c) == Len(c) >= 1

\* len(c) >= 20
KeepChunk(c) == Len(c) >= MinChunkLen

\* intelligent_chunk(text, chunk_size, chunk_overlap)
IntelligentChunk(txt, size, overlap) ==
    IF Strip(txt) = <<>> THEN Return(<<>>)
    ELSE LET sections == SplitSections(SplitOn(txt, "\n"), 1, <<>>, <<>>)
             r == ChunkSections(sections, 1, <<>>, size, overlap)
         IN IF r.exc # "" THEN r
            ELSE Return(SelectSeq(r.value, KeepChunk))

(***************************************************************************)
(* extractor.py: _is_junk_value                                            *)
(***************************************************************************)
skip_words == {
    <<"i","n","f","o","r","m","a","t","i","o","n">>, <<"d","e","t","a","i","l","s">>, <<"s","e","c","t","i","o","n">>, <<"d","a","t","a">>, <<"s","u","m","m","a","r","y">>,
    <<"n","/","a">>, <<"n","a">>, <<"n","o","n","e">>, <<"n","u","l","l">>, <<"t","b","d">>, <<"-","-","-">>, <<"=","=","=">> }

header_keywords == {
    <<"c","a","r","r","i","e","r">>, <<"m","c">>, <<"p","h","o","n","e">>, <<"e","q","u","i","p","m","e","n","t">>, <<"a","g","r","e","e","d">>, <<"a","m","o","u","n","t">>,
    <<"s","i","z","e">>, <<"f","e","e","t">>, <<"c","o","l","u","m","n">>, <<"f","i","e","l","d">>, <<"v","a","l","u","e">>, <<"t","y","p","e">>, <<"n","a","m","e">>,
    <<"a","d","d","r","e","s","s">>, <<"c","i","t","y">>, <<"s","t","a","t","e">>, <<"z","i","p">>, <<"c","o","n","t","a","c","t">>, <<"e","m","a","i","l">>, <<"f","a","x">> }

\* ^[\s\-]+$
DashesOnly == ReSeq(<<ReBol, RePlus(ReSet(Space \cup {"-"})), ReEol>>)

\* The thresholds of the table-header test and of the table-row test
MinHeaderOverlap == 3
MinHeaderWords == 4
MinPipes == 2
MinValueLen == 2

\* More than 3 header keywords asked for instead of at least 3: a mutant of
\* IsTableHeader
IsTableHeaderStrict(words) ==
    LET header_overlap == Cardinality(words \cap header_keywords)
    IN header_overlap > MinHeaderOverlap /\ Cardinality(words) >= MinHeaderWords

\* header_overlap >= 3 and len(words) >= 4, words being a set
IsTableHeader(words) ==
    LET header_overlap == Cardinality(words \cap header_keywords)
    IN header_overlap >= MinHeaderOverlap /\ Cardinality(words) >= MinHeaderWords

\* val compared with the stoplist without lower-casing it: a mutant of
\* InSkipWords
InSkipWordsCaseSensitive(v) == Strip(v) \in skip_words

\* val_lower in skip_words
InSkipWords(v) == Strip(StrLower(v)) \in skip_words

\* _is_junk_value(val)
IsJunkValue(v) ==
    IF v = None \/ v = <<>> \/ Len(Strip(v)) < MinValueLen THEN TRUE
    ELSE LET val_lower == Strip(StrLower(v))
             words == Range(SplitWs(val_lower))
         IN IF InSkipWords(v) THEN TRUE
            ELSE IF StartsWith(v, <<"-","-","-">>) \/ StartsWith(v, <<"=","=","=">>) THEN TRUE
            ELSE IF ReMatch(DashesOnly, v, NoFlags).found THEN TRUE
            ELSE IF IsTableHeader(words) THEN TRUE
            ELSE IF Contains(v, <<"|">>) /\ Count(v, "|") >= MinPipes THEN TRUE
            ELSE FALSE

(***************************************************************************)
(* extractor.py: _find_value_after_label                                   *)
(***************************************************************************)
\* \s*
Ws0 == ReStar(ReWs)
\* \s+
Ws1 == RePlus(ReWs)
\* (.+?)(?:\n|$)
RestOfLine == ReSeq(<<ReGrp(1, ReLazy(ReAny, 1, -1)), ReAlt(<<ReSet({"\n"}), ReEol>>)>>)
\* label\s*:\s*(.+?)(?:\n|$), label being a sequence of expressions
LabelLine(label) == ReSeq(label \o <<Ws0, ReSet({":"}), Ws0, RestOfLine>>)

shipper_patterns == <<
    LabelLine(<<ReLit(<<"s","h","i","p","p","e","r">>), Ws0, ReOpt(ReLit(<<"n","a","m","e">>))>>),
    LabelLine(<<ReLit(<<"s","h","i","p">>), Ws1, ReLit(<<"f","r","o","m">>)>>),
    LabelLine(<<ReLit(<<"o","r","i","g","i","n">>), Ws0, ReOpt(ReWords(<<<<"n","a","m","e">>, <<"c","o","m","p","a","n","y">>>>))>>),
    LabelLine(<<ReLit(<<"p","i","c","k">>), Ws0, ReOpt(ReSet({"-"})), Ws0, ReLit(<<"u","p">>), Ws1,
                ReWords(<<<<"l","o","c","a","t","i","o","n">>, <<"c","o","m","p","a","n","y">>, <<"n","a","m","e">>>>)>>)
>>

mode_patterns == <<
    LabelLine(<<ReLit(<<"m","o","d","e">>)>>),
    LabelLine(<<ReLit(<<"t","r","a","n","s","p","o","r","t","a","t","i","o","n">>), Ws0, ReLit(<<"m","o","d","e">>)>>),
    LabelLine(<<ReLit(<<"s","e","r","v","i","c","e">>), Ws0, ReWords(<<<<"t","y","p","e">>, <<"m","o","d","e">>>>)>>),
    ReSeq(<<ReLit(<<"l","o","a","d">>), Ws0, ReLit(<<"t","y","p","e">>), Ws0, ReOpt(ReSet({":"})), Ws0,
            ReOpt(ReSet({"\n"})), Ws0,
            ReGrp(1, ReWords(<<<<"F","T","L">>, <<"L","T","L">>, <<"I","N","T","E","R","M","O","D","A","L">>>>))>>)
>>

\* The pattern lists the model passes as label_patterns, by name
PatternList(name) ==
    CASE name = "shipper_patterns" -> shipper_patterns
      [] name = "mode_patterns" -> mode_patterns

\* The returned value is cut to this length
LabelValueMaxLen == 150

\* _find_value_after_label returning at the first junk match instead of going
\* on to the next pattern: a mutant
RECURSIVE FindValueStoppingAtJunk(_, _, _, _)
FindValueStoppingAtJunk(txt, patterns, ml, k) ==
    IF k > Len(patterns) THEN None
    ELSE LET match == ReSearch(patterns[k], txt, Flags(TRUE, ml))
         IN IF ~match.found THEN FindValueStoppingAtJunk(txt, patterns, ml, k + 1)
            ELSE LET v == Strip(Group(txt, match, 1))
                 IN IF IsJunkValue(v) THEN None
                    ELSE Slice(v, 0, LabelValueMaxLen)

\* The loop of _find_value_after_label from pattern k on
RECURSIVE FindValueFrom(_, _, _, _)
FindValueFrom(txt, patterns, ml, k) ==
    IF k > Len(patterns) THEN None
    ELSE LET match == ReSearch(patterns[k], txt, Flags(TRUE, ml))
         IN IF ~match.found THEN FindValueFrom(txt, patterns, ml, k + 1)
            ELSE LET v == Strip(Group(txt, match, 1))
                 IN IF IsJunkValue(v) THEN FindValueFrom(txt, patterns, ml, k + 1)
                    ELSE Slice(v, 0, LabelValueMaxLen)

\* _find_value_after_label(text, label_patterns, multiline)
FindValueAfterLabel(txt, patterns, ml) == FindValueFrom(txt, patterns, ml, 1)

(***************************************************************************)
(* extractor.py: the rate of _extract_with_regex                           *)
(***************************************************************************)
\* ([\d,]+\.?\d{0,2})
Amount == ReGrp(1, ReSeq(<<RePlus(ReSet(Digit \cup {","})), ReOpt(ReSet({"."})),
                           ReRep(ReDigit, 0, 2)>>))
\* \s*[:=]?\s*
Sep == ReSeq(<<Ws0, ReOpt(ReSet({":", "="})), Ws0>>)
\* \$?\s*
Dollar == ReSeq(<<ReOpt(ReSet({"$"})), Ws0>>)

rate_patterns == <<
    ReSeq(<<ReOpt(ReSeq(<<ReLit(<<"c","a","r","r","i","e","r">>), Ws0, ReLit(<<"p","a","y">>), Ws0>>)),
            ReLit(<<"t","o","t","a","l">>), Sep, Dollar, Amount, Ws0, ReLit(<<"U","S","D">>)>>),
    ReSeq(<<ReLit(<<"t","o","t","a","l">>), Ws0,
            ReAlt(<<ReLit(<<"r","a","t","e">>), ReSeq(<<ReLit(<<"c","h","a","r","g","e">>), ReOpt(ReSet({"s"}))>>),
                    ReLit(<<"d","u","e">>), ReLit(<<"a","m","o","u","n","t">>), ReLit(<<"c","o","s","t">>)>>),
            Sep, Dollar, Amount>>),
    ReSeq(<<ReAlt(<<ReLit(<<"a","g","r","e","e","d">>), ReLit(<<"c","o","n","t","r","a","c","t","e","d">>),
                    ReSeq(<<ReLit(<<"a","l","l">>), ReStar(ReSet(Space \cup {"-"})), ReLit(<<"i","n">>)>>)>>),
            Ws0, ReWords(<<<<"r","a","t","e">>, <<"a","m","o","u","n","t">>, <<"p","r","i","c","e">>>>), Sep, Dollar, Amount>>),
    ReSeq(<<ReLit(<<"T","O","T","A","L">>), Ws0, ReOpt(ReLit(<<"D","U","E">>)), Sep, Dollar, Amount>>),
    ReSeq(<<ReLit(<<"l","i","n","e">>), Ws0, ReLit(<<"h","a","u","l">>), Ws0, ReOpt(ReLit(<<"r","a","t","e">>)),
            Sep, Dollar, Amount>>),
    ReSeq(<<ReOpt(ReSeq(<<ReLit(<<"f","r","e","i","g","h","t">>), Ws1>>)), ReLit(<<"r","a","t","e">>), Sep, Dollar, Amount>>),
    ReSeq(<<ReLit(<<"a","m","o","u","n","t">>), Sep, ReSet({"$"}), Ws0, Amount>>),
    ReSeq(<<ReOpt(ReSeq(<<ReLit(<<"a","g","r","e","e","d">>), Ws1>>)), ReLit(<<"a","m","o","u","n","t">>), Ws0,
            ReLit(<<"(","U","S","D",")">>), Ws0, ReLazy(ReAny, 0, -1), Dollar, Amount>>)
>>

\* s.replace(c, "") for a one-character c
Remove(s, c) == SelectSeq(s, LAMBDA x : x # c)

\* The decimal digits ds as a number
RECURSIVE DigitsValue(_)
DigitsValue(ds) ==
    IF ds = <<>> THEN 0
    ELSE 10 * DigitsValue(SubSeq(ds, 1, Len(ds) - 1))
           + ((CHOOSE i \in 1..10 : DigitSeq[i] = ds[Len(ds)]) - 1)

RECURSIVE Pow10(_)
Pow10(n) == IF n = 0 THEN 1 ELSE 10 * Pow10(n - 1)

\* float(s) for s of digits and points: ValueError unless s is digits with at
\* most one point and at least one digit; the value is num / den
ParseFloat(s) ==
    LET points == {i \in DOMAIN s : s[i] = "."}
    IN IF \/ \E i \in DOMAIN s : s[i] \notin Digit \cup {"."}
          \/ Cardinality(points) > 1
          \/ \A i \in DOMAIN s : s[i] \notin Digit
       THEN Raise("ValueError")
       ELSE LET frac == IF points = {} THEN 0 ELSE Len(s) - (CHOOSE i \in points : TRUE)
            IN Return([num |-> DigitsValue(Remove(s, ".")), den |-> Pow10(frac)])

RateMin == 10
RateMax == 1000000

\* 10 <= x < 1000000: a mutant of Plausible
PlausibleFromTen(x) == RateMin * x.den <= x.num /\ x.num < RateMax * x.den

\* 10 < x < 1000000 for x = num / den
Plausible(x) == RateMin * x.den < x.num /\ x.num < RateMax * x.den

\* The digits of a natural number
RECURSIVE NatDigits(_)
NatDigits(n) ==
    IF n < 10 THEN <<DigitSeq[n + 1]>>
    ELSE Append(NatDigits(n \div 10), DigitSeq[(n % 10) + 1])

\* f"{x:.2f}" for x = cents / 100
FormatCents(cents) ==
    NatDigits(cents \div 100) \o <<".">> \o
        <<DigitSeq[((cents \div 10) % 10) + 1], DigitSeq[(cents % 10) + 1]>>

\* dict: result[key] = v; key in result
DictSet(d, key, v) == [x \in DOMAIN d \cup {key} |-> IF x = key THEN v ELSE d[x]]
EmptyDict == [x \in {} |-> None]

\* The loop over rate_patterns from pattern k on: the accepted rate_val, or
\* None when the loop ends without a break
RECURSIVE RateFromPatterns(_, _)
RateFromPatterns(txt, k) ==
    IF k > Len(rate_patterns) THEN None
    ELSE Let(ReSearch(rate_patterns[k], txt, IgnoreCase), LAMBDA match :
            IF ~match.found THEN RateFromPatterns(txt, k + 1)
            ELSE Let(Strip(Remove(Group(txt, match, 1), ",")), LAMBDA rate_val :
                 Let(ParseFloat(rate_val), LAMBDA rate_num :
                    IF rate_num.exc # "" THEN RateFromPatterns(txt, k + 1)
                    ELSE IF Plausible(rate_num.value) THEN rate_val
                    ELSE RateFromPatterns(txt, k + 1))))

\* \$\s*([\d,]+\.\d{2})
DollarAmount == ReSeq(<<ReSet({"$"}), Ws0,
                        ReGrp(1, ReSeq(<<RePlus(ReSet(Digit \cup {","})), ReSet({"."}),
                                         ReRep(ReDigit, 2, 2)>>))>>)

\* re.findall(r, s) for a pattern with one group whose matches are never empty
RECURSIVE ReFindAllFrom(_, _, _, _)
ReFindAllFrom(r, s, pos, fl) ==
    LET m == ReSearchFrom(r, s, pos, fl)
    IN IF ~m.found THEN <<>>
       ELSE <<Group(s, m, 1)>> \o ReFindAllFrom(r, s, m.end, fl)
ReFindAll(r, s, fl) == ReFindAllFrom(r, s, 0, fl)

\* min(amounts) taken instead of max(amounts): a mutant of MaxDollarAmount
MinDollarAmount(txt) ==
    Let(ReFindAll(DollarAmount, txt, NoFlags), LAMBDA dollar_matches :
    Let([i \in DOMAIN dollar_matches |-> ParseFloat(Remove(dollar_matches[i], ","))],
        LAMBDA parsed :
    Let({parsed[i].value.num : i \in
            {j \in DOMAIN parsed : parsed[j].exc = "" /\ Plausible(parsed[j].value)}},
        LAMBDA amounts :
       IF amounts = {} THEN -1
       ELSE CHOOSE a \in amounts : \A b \in amounts : a <= b)))

\* The standalone dollar amounts fallback: the value of max(amounts) in
\* cents, or -1 when amounts is empty
MaxDollarAmount(txt) ==
    Let(ReFindAll(DollarAmount, txt, NoFlags), LAMBDA dollar_matches :
    Let([i \in DOMAIN dollar_matches |-> ParseFloat(Remove(dollar_matches[i], ","))],
        LAMBDA parsed :
    Let({parsed[i].value.num : i \in
            {j \in DOMAIN parsed : parsed[j].exc = "" /\ Plausible(parsed[j].value)}},
        LAMBDA amounts :
       IF amounts = {} THEN -1
       ELSE CHOOSE a \in amounts : \A b \in amounts : b <= a)))

\* The rate block of _extract_with_regex: result after it, given result before
ExtractRate(txt, res) ==
    Let(RateFromPatterns(txt, 1), LAMBDA rate_val :
       IF rate_val # None THEN DictSet(res, "rate", rate_val)
       ELSE Let(MaxDollarAmount(txt), LAMBDA best :
               IF best >= 0 THEN DictSet(res, "rate", FormatCents(best)) ELSE res))

(***************************************************************************)
(* extractor.py: _extract_with_regex, its preprocessing and its fields     *)
(***************************************************************************)
\* A value is used when it is neither None nor empty (if val: ...)
Truthy(v) == v # None /\ v # <<>>

\* re.sub(r, r'\1 \2', s) from position pos on, for a pattern made of two
\* groups: a space is put between the groups of every match
RECURSIVE SubSpaceFrom(_, _, _)
SubSpaceFrom(r, s, pos) ==
    Let(ReSearchFrom(r, s, pos, NoFlags), LAMBDA m :
       IF ~m.found THEN SubSeq(s, pos + 1, Len(s))
       ELSE SubSeq(s, pos + 1, m.g[1][2]) \o <<" ">> \o SubSeq(s, m.g[1][2] + 1, m.end)
               \o SubSpaceFrom(r, s, m.end))

\* cleaned_text: the four substitutions that undo PDF concatenations
CleanedText(txt) ==
    LET usdev == ReGrp(1, ReSeq(<<ReLit(<<"u","s","d","e","v","@">>), RePlus(ReNonWs)>>))
    IN SubSpaceFrom(ReSeq(<<usdev, ReGrp(2, ReLit(<<"L","o","a","d">>))>>),
         SubSpaceFrom(ReSeq(<<usdev, ReGrp(2, ReLit(<<"D","i","s","p","a","t","c","h","e","r">>))>>),
           SubSpaceFrom(ReSeq(<<ReGrp(1, ReLit(<<"U","S","D">>)),
                                ReGrp(2, ReWords(<<<<"P","i","c","k","u","p">>, <<"D","r","o","p">>>>))>>),
             SubSpaceFrom(ReSeq(<<ReGrp(1, ReWords(<<<<"F","T","L">>, <<"L","T","L">>>>)),
                                  ReGrp(2, ReWords(<<<<"S","h","i","p","p","i","n","g">>, <<"D","e","l","i","v","e","r","y">>, <<"S","h","i","p">>>>))>>),
                          txt, 0), 0), 0), 0)

id_patterns ==
    LET value == ReSeq(<<Ws0, ReOpt(ReSet({":"})), Ws0,
                         ReGrp(1, ReSeq(<<ReSet(Upper \cup Lower \cup Digit),
                                          ReRep(ReSet(WordCh \cup {"-"}), 2, 25)>>))>>)
        no == ReSeq(<<ReLit(<<"n","o">>), ReOpt(ReSet({"."}))>>)
        number == ReAlt(<<ReSet({"#"}), no, ReLit(<<"n","u","m","b","e","r">>)>>)
        id_number == ReAlt(<<ReLit(<<"i","d">>), ReSet({"#"}), no, ReLit(<<"n","u","m","b","e","r">>)>>)
    IN <<ReSeq(<<ReWords(<<<<"r","e","f","e","r","e","n","c","e">>, <<"r","e","f">>>>), Ws0, ReLit(<<"i","d">>), value>>),
         ReSeq(<<ReLit(<<"l","o","a","d">>), Ws0, ReLit(<<"i","d">>), value>>),
         ReSeq(<<ReLit(<<"s","h","i","p","m","e","n","t">>), Ws0, id_number, value>>),
         ReSeq(<<ReLit(<<"l","o","a","d">>), Ws0, number, value>>),
         ReSeq(<<ReWords(<<<<"b","o","l">>, <<"p","r","o">>>>), Ws0, number, value>>),
         ReSeq(<<ReLit(<<"c","o","n","f","i","r","m","a","t","i","o","n">>), Ws0, number, value>>),
         ReSeq(<<ReLit(<<"o","r","d","e","r">>), Ws0, id_number, value>>),
         ReSeq(<<ReOpt(ReSeq(<<ReLit(<<"r","a","t","e">>), Ws1>>)), ReLit(<<"c","o","n","f">>),
                 ReOpt(ReLit(<<"i","r","m","a","t","i","o","n">>)), Ws0, ReOpt(ReSet({"#"})), value>>)>>

\* The shipment id: the label patterns on the text, then on the cleaned text
ExtractShipmentId(txt, cleaned_text, res) ==
    Let(FindValueAfterLabel(txt, id_patterns, FALSE), LAMBDA first :
    Let(IF Truthy(first) THEN first
        ELSE FindValueAfterLabel(cleaned_text, id_patterns, FALSE), LAMBDA v :
       IF Truthy(v) THEN DictSet(res, "shipment_id", v) ELSE res))

\* The loop of _find_next_value_line from line j (0-based) on, up to line
\* last - 1
RECURSIVE FindNextValueFrom(_, _, _)
FindNextValueFrom(lines, j, last) ==
    IF j >= last THEN None
    ELSE Let(Strip(lines[j + 1]), LAMBDA candidate :
         LET name_match == ReMatch(ReSeq(<<ReBol, ReWords(<<<<"n","a","m","e">>, <<"c","o","m","p","a","n","y">>>>), Ws0,
                                          ReSet({":"}), Ws0, ReGrp(1, RePlus(ReAny))>>),
                                   candidate, IgnoreCase)
             sub_label == ReMatch(ReSeq(<<ReBol,
                                         ReWords(<<<<"a","d","d","r","e","s","s">>, <<"c","o","n","t","a","c","t">>, <<"p","h","o","n","e">>, <<"e","m","a","i","l">>,
                                                   <<"f","a","x">>, <<"c","i","t","y">>, <<"s","t","a","t","e">>, <<"z","i","p">>>>),
                                         Ws0, ReSet({":"})>>),
                                  candidate, IgnoreCase)
         IN IF \/ candidate = <<>>
               \/ StartsWith(candidate, <<"-","-","-">>) \/ StartsWith(candidate, <<"=","=","=">>)
               \/ IsJunkValue(candidate)
            THEN FindNextValueFrom(lines, j + 1, last)
            ELSE Let(name_match, LAMBDA m :
                    IF m.found THEN Strip(Group(candidate, m, 1))
                    ELSE IF sub_label.found THEN FindNextValueFrom(lines, j + 1, last)
                    ELSE candidate))

\* A window one line shorter: a mutant of FindNextValueLine
FindNextValueLineShort(lines, start_idx, skip_count) ==
    FindNextValueFrom(lines, start_idx + 1, Min(start_idx + skip_count, Len(lines)))

\* _find_next_value_line(lines, start_idx, skip_count)
FindNextValueLine(lines, start_idx, skip_count) ==
    FindNextValueFrom(lines, start_idx + 1, Min(start_idx + skip_count + 1, Len(lines)))

\* The index (from 1) of the first line for which P holds, 0 when there is none
FirstLine(lines, P(_)) ==
    Let(lines, LAMBDA ls :
    Let({i \in DOMAIN ls : \E l \in {ls[i]} : P(l)}, LAMBDA hits :
       IF hits = {} THEN 0 ELSE CHOOSE i \in hits : \A j \in hits : i <= j))

\* s.rstrip(",")
RECURSIVE RStripComma(_)
RStripComma(s) ==
    IF s # <<>> /\ s[Len(s)] = "," THEN RStripComma(SubSeq(s, 1, Len(s) - 1)) ELSE s

\* re.match(r, line.strip(), re.IGNORECASE)
HeaderLine(r, ln) == ReMatch(r, Strip(ln), IgnoreCase).found

\* The value under the first section header line: P tells the header lines
UnderHeader(lines, P(_), skip_count) ==
    Let(FirstLine(lines, P), LAMBDA i :
       IF i = 0 THEN None ELSE FindNextValueLine(lines, i - 1, skip_count))

\* ^shipper\s+(?:consignee|receiver) at the start of the trimmed line
IsShipperConsignee(ln) ==
    HeaderLine(ReSeq(<<ReBol, ReLit(<<"s","h","i","p","p","e","r">>), Ws1,
                       ReWords(<<<<"c","o","n","s","i","g","n","e","e">>, <<"r","e","c","e","i","v","e","r">>>>)>>), ln)


\* The shipper of the line under a "Shipper Consignee" header, prev when the
\* text has no such header or the line does not match
ShipperRow(lines, prev) ==
    Let(FirstLine(lines, IsShipperConsignee), LAMBDA i :
       IF i = 0 \/ i + 1 > Len(lines) THEN prev
       ELSE Let(Strip(lines[i + 1]), LAMBDA next_line :
            Let(ReMatch(ReSeq(<<ReBol, ReOpt(ReSeq(<<RePlus(ReDigit), ReSet({"."})>>)),
                                Ws0, ReGrp(1, ReLazy(ReAny, 1, -1)), Ws0,
                                ReOpt(ReSet({",", ";"})), Ws0, ReEol>>),
                        next_line, NoFlags), LAMBDA shipper_match :
               IF shipper_match.found
               THEN RStripComma(Strip(Group(next_line, shipper_match, 1)))
               ELSE prev)))

\* The value is stored without the junk test: a mutant of StoreShipper
StoreShipperUntested(res, v) ==
    IF Truthy(v) THEN DictSet(res, "shipper", Slice(v, 0, 100)) ELSE res

\* if val and not _is_junk_value(val): result["shipper"] = val[:100]
StoreShipper(res, v) ==
    IF Truthy(v) /\ ~IsJunkValue(v) THEN DictSet(res, "shipper", Slice(v, 0, 100)) ELSE res

\* The shipper: the label patterns, then a section header, then a "Pickup"
\* header of the cleaned text, then a "Shipper Consignee" header
ExtractShipper(txt, cleaned_text, res) ==
    LET lines0 == SplitOn(txt, "\n")
        cleaned_lines0 == SplitOn(cleaned_text, "\n")
        header == ReSeq(<<ReBol, ReAlt(<<ReLit(<<"s","h","i","p","p","e","r">>),
                                         ReSeq(<<ReLit(<<"s","h","i","p">>), Ws1, ReLit(<<"f","r","o","m">>)>>),
                                         ReLit(<<"o","r","i","g","i","n">>)>>),
                          Ws0, ReOpt(ReWords(<<<<"i","n","f","o","r","m","a","t","i","o","n">>, <<"d","e","t","a","i","l","s">>>>)), Ws0, ReEol>>)
        pickup == ReSeq(<<ReBol, ReLit(<<"p","i","c","k","u","p">>), Ws0, ReEol>>)
        pickup_end == ReSeq(<<ReLit(<<"P","i","c","k","u","p">>), Ws0, ReEol>>)
    IN Let(lines0, LAMBDA lines :
       Let(cleaned_lines0, LAMBDA cleaned_lines :
       Let(FindValueAfterLabel(txt, shipper_patterns, FALSE), LAMBDA labelled :
       Let(IF Truthy(labelled) THEN labelled
           ELSE UnderHeader(lines, LAMBDA l : HeaderLine(header, l), 5),
           LAMBDA sectioned :
       Let(IF Truthy(sectioned) THEN sectioned
           ELSE UnderHeader(cleaned_lines,
                            LAMBDA l : \/ StrLower(Strip(l)) = <<"p","i","c","k","u","p">>
                                       \/ HeaderLine(pickup, l), 3),
           LAMBDA picked :
       Let(IF Truthy(picked) THEN picked
           ELSE UnderHeader(cleaned_lines,
                            LAMBDA l : ReSearch(pickup_end, Strip(l), NoFlags).found, 3),
           LAMBDA picked_end :
       Let(IF Truthy(picked_end) THEN picked_end ELSE ShipperRow(lines, picked_end),
           LAMBDA v : StoreShipper(res, v))))))))

consignee_patterns == <<
    LabelLine(<<ReLit(<<"c","o","n","s","i","g","n","e","e">>), Ws0, ReOpt(ReLit(<<"n","a","m","e">>))>>),
    LabelLine(<<ReLit(<<"s","h","i","p">>), Ws1, ReLit(<<"t","o">>)>>),
    LabelLine(<<ReLit(<<"d","e","l","i","v","e","r">>), Ws1, ReLit(<<"t","o">>)>>),
    LabelLine(<<ReLit(<<"r","e","c","e","i","v","e","r">>), Ws0, ReOpt(ReLit(<<"n","a","m","e">>))>>),
    LabelLine(<<ReLit(<<"d","e","s","t","i","n","a","t","i","o","n">>), Ws0, ReOpt(ReWords(<<<<"n","a","m","e">>, <<"c","o","m","p","a","n","y">>>>))>>)
>>

\* The loop over the lines j (0-based) .. last - 1 under a "Shipper Consignee"
\* header: the text after "USA" of the first line that has more than one
\* character of it, otherwise the last one found, otherwise prev
RECURSIVE ConsigneeRow(_, _, _, _)
ConsigneeRow(lines, j, last, prev) ==
    IF j >= last THEN prev
    ELSE Let(ReSearch(ReSeq(<<ReLit(<<"U","S","A">>), ReStar(ReDigit), ReOpt(ReSet({"."})), Ws0,
                              ReGrp(1, ReLazy(ReAny, 1, -1)),
                              ReAlt(<<ReSeq(<<Ws0, ReSet({","}), Ws0, ReEol>>),
                                      ReSeq(<<Ws0, ReEol>>)>>)>>),
                      lines[j + 1], NoFlags), LAMBDA consignee_split :
            IF ~consignee_split.found THEN ConsigneeRow(lines, j + 1, last, prev)
            ELSE Let(RStripComma(Strip(Group(lines[j + 1], consignee_split, 1))), LAMBDA found :
                    IF Len(found) > 1 THEN found
                    ELSE ConsigneeRow(lines, j + 1, last, found)))

\* The consignee: the label patterns, then a section header, then a "Drop"
\* header, then the text after "USA" under a "Shipper Consignee" header
ExtractConsignee(txt, res) ==
    LET lines0 == SplitOn(txt, "\n")
        header == ReSeq(<<ReBol, ReAlt(<<ReLit(<<"c","o","n","s","i","g","n","e","e">>),
                                         ReSeq(<<ReLit(<<"s","h","i","p">>), Ws1, ReLit(<<"t","o">>)>>),
                                         ReSeq(<<ReLit(<<"d","e","l","i","v","e","r">>), Ws1, ReLit(<<"t","o">>)>>),
                                         ReLit(<<"r","e","c","e","i","v","e","r">>), ReLit(<<"d","e","s","t","i","n","a","t","i","o","n">>)>>),
                          Ws0, ReOpt(ReWords(<<<<"i","n","f","o","r","m","a","t","i","o","n">>, <<"d","e","t","a","i","l","s">>>>)), Ws0, ReEol>>)
        drop == ReSeq(<<ReBol, ReLit(<<"d","r","o","p">>), Ws0, ReOpt(ReLit(<<"o","f","f">>)), Ws0, ReEol>>)
    IN Let(lines0, LAMBDA lines :
       Let(FindValueAfterLabel(txt, consignee_patterns, FALSE), LAMBDA labelled :
       Let(IF Truthy(labelled) THEN labelled
           ELSE UnderHeader(lines, LAMBDA l : HeaderLine(header, l), 5),
           LAMBDA sectioned :
       Let(IF Truthy(sectioned) THEN sectioned
           ELSE UnderHeader(lines,
                            LAMBDA l : \/ StrLower(Strip(l)) = <<"d","r","o","p">>
                                       \/ HeaderLine(drop, l), 3),
           LAMBDA dropped :
       Let(IF Truthy(dropped) THEN 0 ELSE FirstLine(lines, IsShipperConsignee), LAMBDA i :
       Let(IF i = 0 THEN dropped
           ELSE ConsigneeRow(lines, i, Min(i + 4, Len(lines)), dropped), LAMBDA v :
          IF Truthy(v) /\ ~IsJunkValue(v) THEN DictSet(res, "consignee", Slice(v, 0, 100))
          ELSE res))))))

\* (?:\d{1,2}[/\-]\d{1,2}[/\-]\d{2,4}|\w+\s+\d{1,2},?\s+\d{4}|\d{4}-\d{2}-\d{2})
date_formats ==
    LET sep == ReSet({"/", "-"})
    IN ReAlt(<<ReSeq(<<ReRep(ReDigit, 1, 2), sep, ReRep(ReDigit, 1, 2), sep, ReRep(ReDigit, 2, 4)>>),
               ReSeq(<<RePlus(ReWord), Ws1, ReRep(ReDigit, 1, 2), ReOpt(ReSet({","})), Ws1,
                       ReRep(ReDigit, 4, 4)>>),
               ReSeq(<<ReRep(ReDigit, 4, 4), ReSet({"-"}), ReRep(ReDigit, 2, 2), ReSet({"-"}),
                       ReRep(ReDigit, 2, 2)>>)>>)

\* label\s*:?\s*(date_formats), label being a sequence of expressions
DateLabel(label) ==
    ReSeq(label \o <<Ws0, ReOpt(ReSet({":"})), Ws0, ReGrp(1, date_formats)>>)

\* pick[\s-]*up and drop[\s-]*off
PickUp == ReSeq(<<ReLit(<<"p","i","c","k">>), ReStar(ReSet(Space \cup {"-"})), ReLit(<<"u","p">>)>>)
DropOff == ReSeq(<<ReLit(<<"d","r","o","p">>), ReStar(ReSet(Space \cup {"-"})), ReLit(<<"o","f","f">>)>>)

pickup_patterns == <<
    DateLabel(<<ReAlt(<<ReLit(<<"s","h","i","p","p","i","n","g">>), ReLit(<<"p","i","c","k","u","p">>), PickUp>>), Ws0, ReLit(<<"d","a","t","e">>)>>),
    DateLabel(<<ReLit(<<"s","h","i","p">>), Ws0, ReLit(<<"d","a","t","e">>)>>),
    DateLabel(<<ReLit(<<"p","i","c","k","u","p">>), Ws0, ReOpt(ReWords(<<<<"d","a","t","e">>, <<"t","i","m","e">>, <<"d","t">>>>))>>),
    DateLabel(<<ReLit(<<"l","o","a","d","i","n","g">>), Ws0, ReOpt(ReWords(<<<<"d","a","t","e">>, <<"t","i","m","e">>>>))>>),
    DateLabel(<<ReLit(<<"e","a","r","l","i","e","s","t">>), Ws0, ReLit(<<"p","i","c","k">>), Ws0, ReOpt(ReSet({"-"})), Ws0,
                ReLit(<<"u","p">>)>>)
>>

delivery_patterns == <<
    DateLabel(<<ReLit(<<"d","e","l","i","v","e","r","y">>), Ws0, ReLit(<<"d","a","t","e">>)>>),
    DateLabel(<<ReLit(<<"d","e","l","i","v","e","r">>), ReOpt(ReLit(<<"y">>)), Ws0, ReLit(<<"d","a","t","e">>)>>),
    DateLabel(<<DropOff, Ws0, ReOpt(ReWords(<<<<"d","a","t","e">>, <<"t","i","m","e">>>>))>>),
    DateLabel(<<ReLit(<<"l","a","t","e","s","t">>), Ws0, ReLit(<<"d","e","l","i","v","e","r">>), ReOpt(ReLit(<<"y">>))>>),
    DateLabel(<<ReWords(<<<<"m","u","s","t">>, <<"d","u","e">>, <<"e","x","p","e","c","t","e","d">>>>), Ws0,
                ReWords(<<<<"d","e","l","i","v","e","r">>, <<"a","r","r","i","v","a","l">>>>)>>)
>>

\* date_match.group(0).strip() for the first date of the line, None without one
DateIn(ln) ==
    Let(ReSearch(date_formats, ln, NoFlags), LAMBDA date_match :
       IF date_match.found THEN Strip(Slice(ln, date_match.start, date_match.end)) ELSE None)

\* The contextual date scan: the date of the first line that has the context
\* and a date in it or in the line after it, None when no line has
ContextDate(lines0, context) ==
    Let(lines0, LAMBDA lines :
    Let([k \in DOMAIN lines |-> DateIn(lines[k])], LAMBDA dates :
    Let(FirstLine([k \in DOMAIN lines |-> k],
                  LAMBDA i : /\ \/ dates[i] # None
                                \/ i + 1 <= Len(lines) /\ dates[i + 1] # None
                             /\ ReSearch(context, lines[i], IgnoreCase).found),
        LAMBDA i :
       IF i = 0 THEN None
       ELSE IF dates[i] # None THEN dates[i]
       ELSE dates[i + 1])))

\* The pickup and delivery dates: the label patterns on the cleaned text, then
\* the contextual scan of the lines of the text
ExtractDates(txt, cleaned_text, res) ==
    LET lines == SplitOn(txt, "\n")
        pickup_context0 ==
            ContextDate(lines, ReAlt(<<PickUp, ReLit(<<"o","r","i","g","i","n">>), ReLit(<<"l","o","a","d","i","n","g">>),
                                       ReSeq(<<ReLit(<<"s","h","i","p","p","i","n","g">>), Ws0, ReLit(<<"d","a","t","e">>)>>),
                                       ReSeq(<<ReLit(<<"s","h","i","p">>), Ws0, ReLit(<<"d","a","t","e">>)>>)>>))
        delivery_context0 ==
            ContextDate(lines, ReAlt(<<ReLit(<<"d","e","l","i","v","e","r">>), ReLit(<<"d","e","s","t","i","n","a","t","i","o","n">>), DropOff>>))
    IN Let(FindValueAfterLabel(cleaned_text, pickup_patterns, FALSE), LAMBDA pickup :
       Let(IF Truthy(pickup) /\ ~IsJunkValue(pickup)
           THEN DictSet(res, "pickup_datetime", Strip(pickup)) ELSE res, LAMBDA r1 :
       Let(FindValueAfterLabel(cleaned_text, delivery_patterns, FALSE), LAMBDA delivery :
       Let(IF Truthy(delivery) /\ ~IsJunkValue(delivery)
           THEN DictSet(r1, "delivery_datetime", Strip(delivery)) ELSE r1, LAMBDA r2 :
       Let(IF "pickup_datetime" \in DOMAIN r2 THEN None ELSE pickup_context0, LAMBDA found1 :
       Let(IF found1 # None THEN DictSet(r2, "pickup_datetime", found1) ELSE r2, LAMBDA r3 :
       Let(IF "delivery_datetime" \in DOMAIN r3 THEN None ELSE delivery_context0,
           LAMBDA found2 :
          IF found2 # None THEN DictSet(r3, "delivery_datetime", found2) ELSE r3)))))))

equip_patterns == <<
    LabelLine(<<ReLit(<<"e","q","u","i","p","m","e","n","t">>), Ws0, ReOpt(ReLit(<<"t","y","p","e">>))>>),
    LabelLine(<<ReLit(<<"t","r","a","i","l","e","r">>), Ws0, ReOpt(ReWords(<<<<"t","y","p","e">>, <<"s","i","z","e">>>>))>>),
    LabelLine(<<ReLit(<<"t","r","u","c","k">>), Ws0, ReOpt(ReLit(<<"t","y","p","e">>))>>)
>>

equip_kws == <<
    <<<<"5","3","'"," ","d","r","y"," ","v","a","n">>, <<"5","3","'"," ","D","r","y"," ","V","a","n">>>>, <<<<"4","8","'"," ","d","r","y"," ","v","a","n">>, <<"4","8","'"," ","D","r","y"," ","V","a","n">>>>,
    <<<<"5","3","'"," ","r","e","e","f","e","r">>, <<"5","3","'"," ","R","e","e","f","e","r">>>>, <<<<"4","8","'"," ","r","e","e","f","e","r">>, <<"4","8","'"," ","R","e","e","f","e","r">>>>,
    <<<<"5","3","f","t">>, <<"5","3","'"," ","T","r","a","i","l","e","r">>>>, <<<<"4","8","f","t">>, <<"4","8","'"," ","T","r","a","i","l","e","r">>>>,
    <<<<"d","r","y"," ","v","a","n">>, <<"D","r","y"," ","V","a","n">>>>, <<<<"r","e","e","f","e","r">>, <<"R","e","e","f","e","r">>>>,
    <<<<"f","l","a","t","b","e","d">>, <<"F","l","a","t","b","e","d">>>>, <<<<"s","t","e","p"," ","d","e","c","k">>, <<"S","t","e","p"," ","D","e","c","k">>>>,
    <<<<"t","a","n","k","e","r">>, <<"T","a","n","k","e","r">>>>, <<<<"c","o","n","t","a","i","n","e","r">>, <<"C","o","n","t","a","i","n","e","r">>>>,
    <<<<"b","o","x"," ","t","r","u","c","k">>, <<"B","o","x"," ","T","r","u","c","k">>>>, <<<<"s","p","r","i","n","t","e","r">>, <<"S","p","r","i","n","t","e","r"," ","V","a","n">>>>
>>

mode_kws == <<
    <<<<"F","U","L","L"," ","T","R","U","C","K","L","O","A","D">>, <<"F","T","L">>>>, <<<<"F","T","L">>, <<"F","T","L">>>>,
    <<<<"L","E","S","S"," ","T","H","A","N"," ","T","R","U","C","K","L","O","A","D">>, <<"L","T","L">>>>, <<<<"L","E","S","S","-","T","H","A","N","-","T","R","U","C","K","L","O","A","D">>, <<"L","T","L">>>>,
    <<<<"L","T","L">>, <<"L","T","L">>>>,
    <<<<"I","N","T","E","R","M","O","D","A","L">>, <<"I","n","t","e","r","m","o","d","a","l">>>>, <<<<"D","R","A","Y","A","G","E">>, <<"D","r","a","y","a","g","e">>>>,
    <<<<"A","I","R"," ","F","R","E","I","G","H","T">>, <<"A","i","r"," ","F","r","e","i","g","h","t">>>>, <<<<"O","C","E","A","N">>, <<"O","c","e","a","n">>>>,
    <<<<"P","A","R","T","I","A","L">>, <<"P","a","r","t","i","a","l">>>>
>>

\* The position (from 0) of the first occurrence of p in s, Len(s) without one
Find(s, p) ==
    LET at == {i \in 0..(Len(s) - Len(p)) : SubSeq(s, i + 1, i + Len(p)) = p}
    IN IF at = {} THEN Len(s) ELSE CHOOSE i \in at : \A j \in at : i <= j

\* The entry whose keyword comes first in the text, instead of the first entry
\* of the table: a mutant of FirstKeyword
FirstKeywordInText(kws, s) ==
    LET hits == {k \in DOMAIN kws : Contains(s, kws[k][1])}
    IN IF hits = {} THEN None
       ELSE kws[CHOOSE k \in hits :
                   \A j \in hits : \/ Find(s, kws[k][1]) < Find(s, kws[j][1])
                                   \/ Find(s, kws[k][1]) = Find(s, kws[j][1]) /\ k <= j][2]

\* for kw, display in kws: if kw in s: ... break; None when no keyword is in s
FirstKeyword(kws, s) ==
    Let({k \in DOMAIN kws : Contains(s, kws[k][1])}, LAMBDA hits :
       IF hits = {} THEN None ELSE kws[CHOOSE k \in hits : \A j \in hits : k <= j][2])

\* The equipment type: the label patterns, otherwise the keywords on text_lower
ExtractEquipment(txt, res) ==
    Let(FindValueAfterLabel(txt, equip_patterns, FALSE), LAMBDA v :
       IF Truthy(v) /\ ~IsJunkValue(v) THEN DictSet(res, "equipment_type", Slice(v, 0, 50))
       ELSE Let(FirstKeyword(equip_kws, StrLower(txt)), LAMBDA display :
               IF display # None THEN DictSet(res, "equipment_type", display) ELSE res))

\* The mode: the label patterns, otherwise the keywords on text_upper
ExtractMode(txt, res) ==
    Let(FindValueAfterLabel(txt, mode_patterns, FALSE), LAMBDA v :
       IF Truthy(v) /\ ~IsJunkValue(v) THEN DictSet(res, "mode", Strip(v))
       ELSE Let(FirstKeyword(mode_kws, StrUpper(txt)), LAMBDA mode_val :
               IF mode_val # None THEN DictSet(res, "mode", mode_val) ELSE res))

\* The characters U+20AC and U+00A3, each one character of a text
Euro == "EURO SIGN"
Pound == "POUND SIGN"

\* CAD tested before USD: a mutant of ExtractCurrency
ExtractCurrencyCadFirst(txt, res) ==
    IF Contains(StrUpper(txt), <<"C","A","D">>) THEN DictSet(res, "currency", <<"C","A","D">>)
    ELSE IF Contains(txt, <<"$">>) \/ Contains(StrUpper(txt), <<"U","S","D">>)
    THEN DictSet(res, "currency", <<"U","S","D">>)
    ELSE res

\* The currency, from the symbols of the text and the codes of text_upper
ExtractCurrency(txt, res) ==
    Let(StrUpper(txt), LAMBDA text_upper :
       IF Contains(txt, <<"$">>) \/ Contains(text_upper, <<"U","S","D">>)
       THEN DictSet(res, "currency", <<"U","S","D">>)
       ELSE IF Contains(text_upper, <<"C","A","D">>) THEN DictSet(res, "currency", <<"C","A","D">>)
       ELSE IF Contains(text_upper, <<"E","U","R">>) \/ Contains(txt, <<Euro>>)
       THEN DictSet(res, "currency", <<"E","U","R">>)
       ELSE IF Contains(text_upper, <<"G","B","P">>) \/ Contains(txt, <<Pound>>)
       THEN DictSet(res, "currency", <<"G","B","P">>)
       ELSE res)

weight_patterns ==
    LET number == ReGrp(1, ReSeq(<<RePlus(ReSet(Digit \cup {","})), ReOpt(ReSet({"."})),
                                   ReStar(ReDigit)>>))
        lbs == ReSeq(<<ReLit(<<"l","b">>), ReOpt(ReLit(<<"s">>))>>)
        pounds == ReSeq(<<ReLit(<<"p","o","u","n","d">>), ReOpt(ReLit(<<"s">>))>>)
        unit == ReGrp(2, ReAlt(<<lbs, ReLit(<<"k","g">>),
                                 ReSeq(<<ReLit(<<"t","o","n">>), ReOpt(ReLit(<<"s">>))>>), pounds>>))
        weight == ReSeq(<<ReLit(<<"w","e","i","g","h","t">>), Ws0, ReOpt(ReSet({":"})), Ws0, number, Ws0, unit>>)
    IN <<ReSeq(<<ReOpt(ReSeq(<<ReLit(<<"g","r","o","s","s">>), Ws1>>)), weight>>),
         ReSeq(<<ReOpt(ReSeq(<<ReLit(<<"t","o","t","a","l">>), Ws1>>)), weight>>),
         ReSeq(<<ReGrp(1, ReSeq(<<RePlus(ReSet(Digit \cup {","})), ReOpt(ReSet({"."})),
                                  RePlus(ReDigit)>>)),
                 Ws0, ReGrp(2, ReAlt(<<lbs, pounds>>))>>),
         ReSeq(<<ReGrp(1, ReRep(ReSet(Digit \cup {","}), 3, -1)),
                 Ws0, ReGrp(2, ReAlt(<<lbs, pounds>>))>>)>>

WeightMin == 50

\* wn > 50: a mutant of Heavy
HeavyAbove(wn) == wn.num > WeightMin * wn.den

\* wn >= 50 for wn = num / den
Heavy(wn) == wn.num >= WeightMin * wn.den

\* No except clause: a mutant of Caught
CaughtNever(r) == FALSE

\* except ValueError: whether the exception of r is caught
Caught(r) == r.exc = "ValueError"

\* The loop over weight_patterns from pattern k on: the accepted weight, None
\* when the loop ends without a break, or an exception that is not caught
RECURSIVE WeightFromPatterns(_, _)
WeightFromPatterns(txt, k) ==
    IF k > Len(weight_patterns) THEN Return(None)
    ELSE Let(ReSearch(weight_patterns[k], txt, IgnoreCase), LAMBDA match :
            IF ~match.found THEN WeightFromPatterns(txt, k + 1)
            ELSE Let(Strip(Group(txt, match, 1)), LAMBDA weight_num :
                 Let(Strip(Group(txt, match, 2)), LAMBDA weight_unit :
                 Let(ParseFloat(Remove(weight_num, ",")), LAMBDA wn :
                    IF wn.exc # ""
                    THEN IF Caught(wn) THEN WeightFromPatterns(txt, k + 1) ELSE wn
                    ELSE IF Heavy(wn.value)
                    THEN Return(Strip(weight_num \o <<" ">> \o weight_unit))
                    ELSE WeightFromPatterns(txt, k + 1)))))

\* The weight: the record with the weight of the first accepted pattern
ExtractWeight(txt, res) ==
    Let(WeightFromPatterns(txt, 1), LAMBDA w :
       IF w.exc # "" THEN w
       ELSE IF w.value = None THEN Return(res)
       ELSE Return(DictSet(res, "weight", w.value)))

\* re.split(r'\s{2,}', s)[0]: s up to its first two whitespace characters in
\* a row
FirstColumn(s) ==
    LET gaps == {i \in 1..(Len(s) - 1) : s[i] \in Space /\ s[i + 1] \in Space}
    IN IF gaps = {} THEN s
       ELSE SubSeq(s, 1, (CHOOSE i \in gaps : \A j \in gaps : i <= j) - 1)

CarrierMinLen == 2
CarrierMaxWords == 6

\* Whether the first column s of a row is taken as the carrier
UsableColumn(s) == Len(s) > CarrierMinLen /\ ~IsJunkValue(s)

\* _parse_carrier_from_row(raw_line)
ParseCarrierFromRow(raw_line) ==
    IF raw_line = <<>> \/ IsJunkValue(raw_line) THEN None
    ELSE Let(ReMatch(ReSeq(<<ReBol, ReGrp(1, ReLazy(ReAny, 1, -1)), Ws1,
                             ReAlt(<<ReSeq(<<ReLit(<<"M","C">>), ReOpt(ReSet(Space \cup {"-"})),
                                             ReDigit>>),
                                     ReSeq(<<ReLit(<<"(">>), ReRep(ReDigit, 3, 3), ReLit(<<")">>)>>),
                                     ReSeq(<<ReLit(<<"$">>), ReDigit>>)>>)>>),
                     raw_line, NoFlags), LAMBDA company_match :
         Let(IF company_match.found THEN Strip(Group(raw_line, company_match, 1)) ELSE <<>>,
             LAMBDA name :
         Let(Strip(FirstColumn(raw_line)), LAMBDA column :
            IF Len(name) > CarrierMinLen /\ ~IsJunkValue(name) THEN name
            ELSE IF UsableColumn(column) THEN column
            ELSE IF Len(SplitWs(raw_line)) <= CarrierMaxWords /\ ~IsJunkValue(raw_line)
            THEN raw_line
            ELSE None)))

carrier_patterns == <<
    LabelLine(<<ReLit(<<"c","a","r","r","i","e","r">>), Ws0, ReLit(<<"n","a","m","e">>)>>),
    LabelLine(<<ReLit(<<"t","r","u","c","k","i","n","g">>), Ws0,
                ReAlt(<<ReLit(<<"c","o","m","p","a","n","y">>), ReSeq(<<ReLit(<<"c","o">>), ReOpt(ReSet({"."}))>>)>>)>>),
    LabelLine(<<ReLit(<<"t","r","a","n","s","p","o","r","t">>), ReOpt(ReLit(<<"a","t","i","o","n">>)), Ws0,
                ReWords(<<<<"c","o","m","p","a","n","y">>, <<"p","r","o","v","i","d","e","r">>>>)>>)
>>

\* The carrier name: the label patterns (a value of at most 8 words), then the
\* first data row under a "Carrier Information" or "Carrier Details" header,
\* then the line after a line with "transportation company"
ExtractCarrier(txt, res) ==
    LET lines0 == SplitOn(txt, "\n")
        header == ReSeq(<<ReBol, ReLit(<<"c","a","r","r","i","e","r">>), Ws0,
                          ReWords(<<<<"i","n","f","o","r","m","a","t","i","o","n">>, <<"d","e","t","a","i","l","s">>>>), Ws0, ReEol>>)
        company == ReSeq(<<ReLit(<<"t","r","a","n","s","p","o","r","t","a","t","i","o","n">>), Ws1, ReLit(<<"c","o","m","p","a","n","y">>)>>)
    IN Let(lines0, LAMBDA lines :
       Let(FindValueAfterLabel(txt, carrier_patterns, FALSE), LAMBDA v :
       IF Truthy(v) /\ ~IsJunkValue(v) /\ Len(SplitWs(v)) <= 8
       THEN DictSet(res, "carrier_name", Slice(v, 0, 100))
       ELSE
       Let(FirstLine(lines, LAMBDA l : HeaderLine(header, l)), LAMBDA i :
       Let(IF i = 0 THEN {}
           ELSE {j \in (i + 1)..Min(i + 4, Len(lines)) :
                    \E candidate \in {Strip(lines[j])} :
                        candidate # <<>> /\ ~IsJunkValue(candidate)}, LAMBDA rows :
       Let(IF rows = {} THEN None
           ELSE ParseCarrierFromRow(Strip(lines[CHOOSE j \in rows : \A k \in rows : j <= k])),
           LAMBDA parsed :
          IF Truthy(parsed) THEN DictSet(res, "carrier_name", Slice(parsed, 0, 100))
          ELSE
          Let(FirstLine(lines, LAMBDA l : ReSearch(company, l, IgnoreCase).found), LAMBDA t :
          Let(IF t # 0 /\ t + 1 <= Len(lines) THEN Strip(lines[t + 1]) ELSE <<>>,
              LAMBDA candidate :
             IF candidate # <<>> /\ candidate # <<"-">> /\ ~IsJunkValue(candidate)
             THEN DictSet(res, "carrier_name", Slice(candidate, 0, 100))
             ELSE res)))))))

all_fields == <<"shipment_id", "shipper", "consignee", "pickup_datetime",
                "delivery_datetime", "equipment_type", "mode", "rate",
                "currency", "weight", "carrier_name">>

\* The characters of a field name
FieldName(f) ==
    CASE f = "shipment_id" -> <<"s","h","i","p","m","e","n","t","_","i","d">>
      [] f = "shipper" -> <<"s","h","i","p","p","e","r">>
      [] f = "consignee" -> <<"c","o","n","s","i","g","n","e","e">>
      [] f = "pickup_datetime" -> <<"p","i","c","k","u","p","_","d","a","t","e","t","i","m","e">>
      [] f = "delivery_datetime" -> <<"d","e","l","i","v","e","r","y","_","d","a","t","e","t","i","m","e">>
      [] f = "equipment_type" -> <<"e","q","u","i","p","m","e","n","t","_","t","y","p","e">>
      [] f = "mode" -> <<"m","o","d","e">>
      [] f = "rate" -> <<"r","a","t","e">>
      [] f = "currency" -> <<"c","u","r","r","e","n","c","y">>
      [] f = "weight" -> <<"w","e","i","g","h","t">>
      [] f = "carrier_name" -> <<"c","a","r","r","i","e","r","_","n","a","m","e">>

\* Every field is reported missing: a mutant of MissingFields
MissingFieldsAll(res) == all_fields

\* found and missing: the fields with and without a value in the record
FoundFields(res) == SelectSeq(all_fields, LAMBDA f : f \in DOMAIN res /\ Truthy(res[f]))
MissingFields(res) == SelectSeq(all_fields, LAMBDA f : f \notin DOMAIN res \/ ~Truthy(res[f]))

\* notes: the method, the number of fields found and, when some are missing,
\* their names
ExtractionNotes(res) ==
    Let(<<<<"E","x","t","r","a","c","t","i","o","n"," ","m","e","t","h","o","d",":"," ","r","e","g","e","x","-","b","a","s","e","d"," ","(","L","L","M"," ","u","n","a","v","a","i","l","a","b","l","e",")">>,
          <<"F","i","e","l","d","s"," ","f","o","u","n","d",":"," ">> \o NatDigits(Len(FoundFields(res))) \o <<"/">>
              \o NatDigits(Len(all_fields))>>, LAMBDA head :
    Let(MissingFields(res), LAMBDA missing :
       IF missing = <<>> THEN head
       ELSE Append(head, <<"M","i","s","s","i","n","g"," ","f","i","e","l","d","s",":"," ">>
                            \o Join([k \in DOMAIN missing |-> FieldName(missing[k])], <<","," ">>))))

\* The dict of the previous call is kept: a mutant of FreshResult
KeptResult(previous) == IF collection = <<>> THEN EmptyDict ELSE previous

\* result = {}: every call starts from an empty dict, whatever the previous
\* call left
FreshResult(previous) == EmptyDict

\* The end of _extract_with_regex: the dict and the notes made from it
Noted(res) == Return([result |-> res, notes |-> ExtractionNotes(res)])

AfterWeight(txt, weighed) ==
    IF weighed.exc # "" THEN weighed ELSE Noted(ExtractCarrier(txt, weighed.value))

\* The blocks of _extract_with_regex in order, cleaned_text being computed
\* once; an exception the weight block lets through ends the call
ExtractFields(txt, cleaned_text, start) ==
    AfterWeight(txt,
      ExtractWeight(txt,
        ExtractCurrency(txt,
          ExtractRate(txt,
            ExtractMode(txt,
              ExtractEquipment(txt,
                ExtractDates(txt, cleaned_text,
                  ExtractConsignee(txt,
                    ExtractShipper(txt, cleaned_text,
                      ExtractShipmentId(txt, cleaned_text, start))))))))))

\* _extract_with_regex(text), started with the dict start: the record and the
\* notes, or the exception raised
ExtractWithRegex(txt, start) == ExtractFields(txt, CleanedText(txt), start)

\* round(found / total, 4), in ten-thousandths
Round4(found, total) == (20000 * found + total) \div (2 * total)

\* The ExtractResponse built from what _extract_with_regex returned
ShipmentOf(res) ==
    [f \in Range(all_fields) |-> IF f \in DOMAIN res THEN res[f] ELSE None]
FoundCount(shipment) == Cardinality({f \in DOMAIN shipment : shipment[f] # None})
Response(doc_id, extracted) ==
    IF extracted.exc # "" THEN extracted
    ELSE Return([document_id |-> doc_id,
                 shipment_data |-> ShipmentOf(extracted.value.result),
                 confidence_score |->
                     Round4(FoundCount(ShipmentOf(extracted.value.result)),
                            Cardinality(Range(all_fields))),
                 extraction_notes |-> extracted.value.notes])

\* _extract_with_regex_pipeline(doc_id, text): the response, or the exception
\* raised
ExtractWithRegexPipeline(doc_id, txt) ==
    Response(doc_id, ExtractWithRegex(txt, EmptyDict))

(***************************************************************************)
(* guardrails.py: the confidence scores and the guardrail rules.  A score  *)
(* is a whole number of ten-thousandths (the caller rounds every           *)
(* similarity to 4 decimals), and the arithmetic is exact.                 *)
(***************************************************************************)
\* 1.0 in ten-thousandths
One == 10000
\* min(1.0, x) alone: a mutant of Clamp01
ClampAbove(num, den) == Min(One * den, num)
\* min(1.0, max(0.0, x)) for x = num / den
Clamp01(num, den) == Min(One * den, Max(0, num))
\* round(x, 4) for x = num / den >= 0, in ten-thousandths: to the nearest, and
\* to the even one of two equally near (the scores computed here are halfway
\* only where the float is exact)
Round(num, den) ==
    LET quot == num \div den
        twice == 2 * (num % den)
    IN IF twice > den \/ (twice = den /\ quot % 2 = 1) THEN quot + 1 ELSE quot
RECURSIVE Sum(_)
Sum(s) == IF s = <<>> THEN 0 ELSE Head(s) + Sum(Tail(s))

\* The second score taken for the best one: a mutant of ComputeRetrievalConfidence
RetrievalConfidenceOfSecond(scores) ==
    IF scores = <<>> THEN 0
    ELSE LET n == Len(scores)
             top_signal == Clamp01(scores[IF n > 1 THEN 2 ELSE 1], 1)
             gap_signal == IF n > 1 THEN Min(One, (scores[1] - scores[2]) * 5)
                           ELSE 5000
             mean_signal == Clamp01(Sum(scores), n)
             conf == 5 * top_signal * n + 2 * gap_signal * n + 3 * mean_signal
         IN Round(Clamp01(conf, 10 * n), 10 * n)

\* compute_retrieval_confidence(similarity_scores); the weighted sum
\* 0.5*top_signal + 0.2*gap_signal + 0.3*mean_signal is a number of
\* ten-thousandths over 10 * len(similarity_scores)
ComputeRetrievalConfidence(scores) ==
    IF scores = <<>> THEN 0
    ELSE LET n == Len(scores)
             top_score == scores[1]
             top_signal == Clamp01(top_score, 1)
             gap_signal == IF n > 1 THEN Min(One, (scores[1] - scores[2]) * 5)
                           ELSE 5000
             mean_signal == Clamp01(Sum(scores), n)
             conf == 5 * top_signal * n + 2 * gap_signal * n + 3 * mean_signal
         IN Round(Clamp01(conf, 10 * n), 10 * n)

\* the set of stopwords of compute_answer_coverage
Stopwords == {
    <<"t","h","e">>, <<"a","n","d">>, <<"f","o","r">>, <<"a","r","e">>, <<"b","u","t">>, <<"n","o","t">>, <<"y","o","u">>, <<"a","l","l">>,
    <<"c","a","n">>, <<"h","a","d">>, <<"h","e","r">>, <<"w","a","s">>, <<"o","n","e">>, <<"o","u","r">>, <<"o","u","t">>, <<"h","a","s">>,
    <<"h","a","v","e">>, <<"b","e","e","n">>, <<"f","r","o","m">>, <<"t","h","e","y">>, <<"t","h","i","s">>, <<"t","h","a","t">>, <<"w","i","t","h">>,
    <<"w","i","l","l">>, <<"w","o","u","l","d">>, <<"t","h","e","r","e">>, <<"t","h","e","i","r">>, <<"w","h","a","t">>, <<"a","b","o","u","t">>, <<"w","h","i","c","h">>,
    <<"w","h","e","n">>, <<"m","a","k","e">>, <<"t","h","a","n">>, <<"t","h","e","m">>, <<"s","o","m","e">>, <<"t","i","m","e">>, <<"v","e","r","y">>,
    <<"y","o","u","r">>, <<"j","u","s","t">>, <<"k","n","o","w">>, <<"t","a","k","e">>, <<"c","o","m","e">>, <<"c","o","u","l","d">>, <<"i","n","t","o">>,
    <<"y","e","a","r">>, <<"a","l","s","o">>, <<"b","a","c","k">>, <<"a","f","t","e","r">>, <<"o","n","l","y">>, <<"m","o","s","t">>, <<"o","t","h","e","r">>,
    <<"o","v","e","r">>, <<"s","u","c","h">>, <<"d","o","e","s">>, <<"s","h","o","u","l","d">>, <<"b","e","i","n","g">>, <<"f","o","u","n","d">>, <<"b","a","s","e","d">>,
    <<"d","o","c","u","m","e","n","t">>, <<"i","n","f","o","r","m","a","t","i","o","n">>, <<"p","l","e","a","s","e">>, <<"n","o","t","e">>, <<"m","e","n","t","i","o","n","e","d">>,
    <<"a","c","c","o","r","d","i","n","g">>
}

\* \b[a-z]{4,}\b (group 1 is the whole match, which re.findall returns)
MinWordLen == 4
WordPattern == ReGrp(1, ReSeq(<<ReWordB, ReRep(ReSet(Lower), MinWordLen, -1), ReWordB>>))

\* sum(1 for w in sig_words if w in combined_sources)
Covered(sig_words, combined_sources) ==
    Cardinality({i \in DOMAIN sig_words : Contains(combined_sources, sig_words[i])})

\* the end of compute_answer_coverage, from sig_words on
CoverageOf(sig_words, combined_sources) ==
    IF sig_words = <<>> THEN 5000
    ELSE Round(One * Covered(sig_words, combined_sources), Len(sig_words))

\* The stopwords counted as well: a mutant of ComputeAnswerCoverage
AnswerCoverageUnfiltered(ans, sources) ==
    IF ans = <<>> \/ sources = <<>> THEN 0
    ELSE CoverageOf(ReFindAll(WordPattern, StrLower(ans), NoFlags),
                    StrLower(Join(sources, <<" ">>)))

\* compute_answer_coverage(answer, source_texts)
ComputeAnswerCoverage(ans, sources) ==
    IF ans = <<>> \/ sources = <<>> THEN 0
    ELSE CoverageOf(SelectSeq(ReFindAll(WordPattern, StrLower(ans), NoFlags),
                              LAMBDA w : w \notin Stopwords),
                    StrLower(Join(sources, <<" ">>)))

\* sum(1 for ct in chunk_texts if term in ct) over the terms, for the lower-cased chunk texts
TermCounts(key_terms, chunk_texts) ==
    Cardinality({<<term, i>> \in key_terms \X DOMAIN chunk_texts : Contains(chunk_texts[i], term)})

\* the end of compute_chunk_agreement, from key_terms on: the mean over the
\* terms of count / len(chunk_texts)
AgreementOf(key_terms, chunk_texts) ==
    IF key_terms = {} THEN 5000
    ELSE Round(One * TermCounts(key_terms, chunk_texts),
               Len(chunk_texts) * Cardinality(key_terms))

\* compute_chunk_agreement(chunks, answer)
ComputeChunkAgreement(cs, ans) ==
    IF cs = <<>> \/ ans = <<>> THEN 0
    ELSE AgreementOf(Range(ReFindAll(WordPattern, StrLower(ans), NoFlags)),
                     [i \in DOMAIN cs |-> StrLower(cs[i].text)])

\* 0.40 * retrieval + 0.35 * coverage + 0.25 * agreement, clamped and rounded
Composite(retrieval, coverage, agreement) ==
    Round(Clamp01(40 * retrieval + 35 * coverage + 25 * agreement, 100), 100)

\* compute_composite_confidence(similarity_scores, answer, source_texts, chunks)
ComputeCompositeConfidence(scores, ans, sources, cs) ==
    Composite(ComputeRetrievalConfidence(scores), ComputeAnswerCoverage(ans, sources),
              ComputeChunkAgreement(cs, ans))

\* The characters U+26A0, U+FE0F and U+2014, each one character of a text
WarningSign == "WARNING SIGN"
VariationSelector == "VARIATION SELECTOR-16"
EmDash == "EM DASH"
NotFoundInDocument == <<WarningSign, VariationSelector>> \o <<" ","N","o","t"," ","f","o","u","n","d"," ","i","n"," ","d","o","c","u","m","e","n","t"," ">> \o <<EmDash>> \o <<" ">>

\* f"{x:.2f}" for x in ten-thousandths (no x here lies halfway between two hundredths)
FormatScore(x) ==
    (IF x < 0 THEN <<"-">> ELSE <<>>) \o
        FormatCents(((IF x < 0 THEN -x ELSE x) + 50) \div 100)

HALLUCINATION_PHRASES == <<
    <<"a","s"," ","a","n"," ","a","i">>,
    <<"i"," ","d","o","n","'","t"," ","h","a","v","e"," ","a","c","c","e","s","s">>,
    <<"i"," ","c","a","n","n","o","t"," ","d","e","t","e","r","m","i","n","e">>,
    <<"b","a","s","e","d"," ","o","n"," ","m","y"," ","t","r","a","i","n","i","n","g">>,
    <<"a","s"," ","a"," ","l","a","n","g","u","a","g","e"," ","m","o","d","e","l">>,
    <<"i","'","m"," ","n","o","t"," ","s","u","r","e">>,
    <<"g","e","n","e","r","a","l"," ","k","n","o","w","l","e","d","g","e">>,
    <<"t","y","p","i","c","a","l","l","y"," ","i","n"," ","l","o","g","i","s","t","i","c","s">>,
    <<"u","s","u","a","l","l","y">>,
    <<"i","n"," ","m","y"," ","e","x","p","e","r","i","e","n","c","e">>,
    <<"c","o","m","m","o","n","l","y">>
>>

\* The first phrase of HALLUCINATION_PHRASES that answer_lower contains, 0 for none
FirstPhrase(answer_lower) ==
    LET hits == {k \in DOMAIN HALLUCINATION_PHRASES : Contains(answer_lower, HALLUCINATION_PHRASES[k])}
    IN IF hits = {} THEN 0 ELSE CHOOSE k \in hits : \A j \in hits : k <= j

LowSimilarity == 2500
MinAnswerLen == 10

\* Rule 1 of check_guardrails
LowConfidence(conf, thr) ==
    <<TRUE,
      <<"C","o","n","f","i","d","e","n","c","e"," ","s","c","o","r","e"," ","(">> \o FormatScore(conf) \o <<")"," ","i","s"," ","b","e","l","o","w"," ","t","h","e"," ","t","h","r","e","s","h","o","l","d"," ","(">> \o FormatScore(thr) \o
          <<")","."," ","T","h","e"," ","a","n","s","w","e","r"," ","m","a","y"," ","n","o","t"," ","b","e"," ","r","e","l","i","a","b","l","y"," ","g","r","o","u","n","d","e","d"," ","i","n"," ","t","h","e"," ","d","o","c","u","m","e","n","t",".">>,
      NotFoundInDocument \o <<"T","h","e"," ","s","y","s","t","e","m"," ","c","o","u","l","d"," ","n","o","t"," ","f","i","n","d"," ","a"," ","c","o","n","f","i","d","e","n","t"," ","a","n","s","w","e","r"," ","t","o"," ","t","h","i","s"," ","q","u","e","s","t","i","o","n"," ","i","n"," ","t","h","e"," ","u","p","l","o","a","d","e","d"," ","d","o","c","u","m","e","n","t","."," ","T","h","e"," ","i","n","f","o","r","m","a","t","i","o","n"," ","m","a","y"," ","n","o","t"," ","b","e"," ","p","r","e","s","e","n","t",","," ","o","r"," ","t","h","e"," ","q","u","e","s","t","i","o","n"," ","m","a","y"," ","n","e","e","d"," ","t","o"," ","b","e"," ","r","e","p","h","r","a","s","e","d",".">>>>

\* Rule 2
NoRelevantContent(top) ==
    <<TRUE,
      <<"T","o","p"," ","r","e","t","r","i","e","v","a","l"," ","s","i","m","i","l","a","r","i","t","y"," ","(">> \o FormatScore(top) \o
          <<")"," ","i","s"," ","v","e","r","y"," ","l","o","w","."," ","N","o"," ","r","e","l","e","v","a","n","t"," ","c","o","n","t","e","n","t"," ","w","a","s"," ","f","o","u","n","d"," ","i","n"," ","t","h","e"," ","d","o","c","u","m","e","n","t",".">>,
      NotFoundInDocument \o <<"N","o"," ","r","e","l","e","v","a","n","t"," ","c","o","n","t","e","n","t"," ","w","a","s"," ","f","o","u","n","d"," ","t","h","a","t"," ","m","a","t","c","h","e","s"," ","y","o","u","r"," ","q","u","e","s","t","i","o","n","."," ","T","h","e"," ","i","n","f","o","r","m","a","t","i","o","n"," ","m","a","y"," ","n","o","t"," ","b","e"," ","p","r","e","s","e","n","t"," ","i","n"," ","t","h","i","s"," ","d","o","c","u","m","e","n","t",".">>>>

\* Rule 3
PotentialHallucination(ans, phrase) ==
    <<TRUE,
      <<"P","o","t","e","n","t","i","a","l"," ","h","a","l","l","u","c","i","n","a","t","i","o","n"," ","d","e","t","e","c","t","e","d",":"," ","a","n","s","w","e","r"," ","c","o","n","t","a","i","n","s"," ","p","h","r","a","s","e"," ","'">> \o phrase \o
          <<"'","."," ","T","h","e"," ","r","e","s","p","o","n","s","e"," ","m","a","y"," ","n","o","t"," ","b","e"," ","g","r","o","u","n","d","e","d"," ","i","n"," ","t","h","e"," ","d","o","c","u","m","e","n","t",".">>,
      <<WarningSign, VariationSelector>> \o
          <<" ","T","h","e"," ","a","n","s","w","e","r"," ","m","a","y"," ","n","o","t"," ","b","e"," ","f","u","l","l","y"," ","g","r","o","u","n","d","e","d"," ","i","n"," ","t","h","e"," ","d","o","c","u","m","e","n","t","."," ","P","l","e","a","s","e"," ","v","e","r","i","f","y",":"," ">> \o ans>>

\* Rule 4
TooShort ==
    <<TRUE,
      <<"A","n","s","w","e","r"," ","i","s"," ","t","o","o"," ","s","h","o","r","t"," ","o","r"," ","e","m","p","t","y"," ">> \o <<EmDash>> \o <<" ","l","i","k","e","l","y"," ","n","o"," ","r","e","l","e","v","a","n","t"," ","i","n","f","o","r","m","a","t","i","o","n"," ","f","o","u","n","d",".">>,
      NotFoundInDocument \o <<"C","o","u","l","d"," ","n","o","t"," ","g","e","n","e","r","a","t","e"," ","a"," ","m","e","a","n","i","n","g","f","u","l"," ","a","n","s","w","e","r",".">>>>

\* The answer returned trimmed: a mutant of Passed
PassedTrimmed(ans) == <<FALSE, None, Strip(ans)>>
\* All guardrails passed
Passed(ans) == <<FALSE, None, ans>>

\* The length tested before the phrases: a mutant of ContentRules
ContentRulesLengthFirst(ans, k) ==
    IF Len(Strip(ans)) < MinAnswerLen THEN TooShort
    ELSE IF k # 0 THEN PotentialHallucination(ans, HALLUCINATION_PHRASES[k])
    ELSE Passed(ans)

\* Rules 3 and 4 and the return after them, with k the first phrase found
ContentRules(ans, k) ==
    IF k # 0 THEN PotentialHallucination(ans, HALLUCINATION_PHRASES[k])
    ELSE IF Len(Strip(ans)) < MinAnswerLen THEN TooShort
    ELSE Passed(ans)

\* The similarity tested before the confidence: a mutant of CheckGuardrails
CheckGuardrailsSimilarityFirst(ans, conf, scores, thr) ==
    IF scores # <<>> /\ scores[1] < LowSimilarity THEN NoRelevantContent(scores[1])
    ELSE IF conf < thr THEN LowConfidence(conf, thr)
    ELSE ContentRules(ans, FirstPhrase(StrLower(ans)))

\* check_guardrails(answer, confidence, similarity_scores, threshold)
CheckGuardrails(ans, conf, scores, thr) ==
    IF conf < thr THEN LowConfidence(conf, thr)
    ELSE IF scores # <<>> /\ scores[1] < LowSimilarity THEN NoRelevantContent(scores[1])
    ELSE ContentRules(ans, FirstPhrase(StrLower(ans)))

(***************************************************************************)
(* extractor.py: extract_structured_data, the LLM path with the regular    *)
(* expressions behind it.  The OpenAI library is the record lib: client is *)
(* what OpenAI(api_key=...) returns or raises, completion what the call of *)
(* the model and the parsing of its answer in _extract_with_llm give, the  *)
(* parsed dict or the exception raised.                                    *)
(***************************************************************************)
\* max_chars; the source cuts at 12000 characters, the model at a length its
\* short texts exceed
max_chars == 40
PlaceholderKey == <<"y","o","u","r","-","o","p","e","n","a","i","-","a","p","i","-","k","e","y","-","h","e","r","e">>
\* An OpenAI client object
OpenAIClient == <<"OpenAI">>

\* get_openai_client(): None without a key and when the constructor raises
GetOpenaiClient(key, lib) ==
    IF key = <<>> \/ key = PlaceholderKey THEN None
    ELSE IF lib.client.exc # "" THEN None
    ELSE lib.client.value

\* The ShipmentData _extract_with_llm builds from the parsed dict
LlmShipment(data) ==
    [f \in Range(all_fields) |->
        IF f \notin DOMAIN data THEN None
        ELSE IF f \in {"rate", "weight"} /\ ~Truthy(data[f]) THEN None
        ELSE data[f]]

\* The notes of _extract_with_llm
LlmNotes(shipment) ==
    LET missing == SelectSeq(all_fields, LAMBDA f : shipment[f] = None)
        head == <<<<"E","x","t","r","a","c","t","i","o","n"," ","m","e","t","h","o","d",":"," ","L","L","M","-","b","a","s","e","d"," ","(","O","p","e","n","A","I",")">>,
                  <<"F","i","e","l","d","s"," ","e","x","t","r","a","c","t","e","d",":"," ">> \o NatDigits(FoundCount(shipment)) \o <<"/">>
                      \o NatDigits(Len(all_fields))>>
    IN IF missing = <<>> THEN head
       ELSE Append(head, <<"M","i","s","s","i","n","g"," ","f","i","e","l","d","s",":"," ">>
                            \o Join([k \in DOMAIN missing |-> FieldName(missing[k])], <<","," ">>))

\* _extract_with_llm(client, doc_id, text, model): the response built from
\* the parsed dict, or the exception of the call or of the parsing
ExtractWithLlm(lib, doc_id) ==
    IF lib.completion.exc # "" THEN lib.completion
    ELSE Return([document_id |-> doc_id,
                 shipment_data |-> LlmShipment(lib.completion.value),
                 confidence_score |-> Round4(FoundCount(LlmShipment(lib.completion.value)),
                                             Len(all_fields)),
                 extraction_notes |-> LlmNotes(LlmShipment(lib.completion.value))])

\* truncated = raw_text[:max_chars] if len(raw_text) > max_chars else raw_text
Truncated(raw_text) ==
    IF Len(raw_text) > max_chars THEN SubSeq(raw_text, 1, max_chars) ELSE raw_text

\* The fallback run on the truncated text: a mutant of RegexFallback
RegexFallbackTruncated(doc_id, raw_text) ==
    ExtractWithRegexPipeline(doc_id, Truncated(raw_text))
\* return _extract_with_regex_pipeline(doc_id, raw_text)
RegexFallback(doc_id, raw_text) == ExtractWithRegexPipeline(doc_id, raw_text)

\* Whether _extract_with_llm is called and returns
LlmReturns(key, lib, doc_id) ==
    GetOpenaiClient(key, lib) # None /\ ExtractWithLlm(lib, doc_id).exc = ""

\* extract_structured_data(doc_id, model), with raw_text what get_raw_text
\* returned: except Exception catches whatever _extract_with_llm raises
ExtractStructuredData(doc_id, raw_text, key, lib) ==
    IF LlmReturns(key, lib, doc_id) THEN ExtractWithLlm(lib, doc_id)
    ELSE RegexFallback(doc_id, raw_text)
(***************************************************************************)
(* The chunking of a document: intelligent_chunk called on its own, and    *)
(* process_and_store, which calls it and stores the chunks                 *)
(***************************************************************************)
\* The texts are made of at most MaxPieces of these pieces
MaxPieces == 2
ChunkPieces == <<
    <<"S","H","I","P","M","E","N","T"," ","D","E","T","A","I","L","S","\n">>,
    <<"R","a","t","e"," ","C","o","n","f","i","r","m","a","t","i","o","n","\n","T","e","n","d","e","r"," ","a","c","c","e","p","t","e","d",".","\n">>,
    <<"L","o","a","d"," ","i","s"," ","r","e","a","d","y",","," ","d","o","c","k"," ","4","."," ">>,
    <<"S","e","a","l"," ","w","a","s"," ","u","n","b","r","o","k","e","n","."," ","G","a","t","e"," ","7"," ","i","s"," ","o","p","e","n","."," ">>,
    <<"a","b","c","d","e","f","g","h","i","j","k","l","m","n","o","p","q","r","s","t","u","v","w","x","y","z","0","1","2","3","4","5","6","7","8","9","a","b","c","d","e","f","g","h","i"," ">>,
    <<" "," ">>
>>
ChunkSizes == {25, 40}
ChunkOverlaps == {0, 10, 25, 30}

RECURSIVE Concat(_)
Concat(parts) == IF parts = <<>> THEN <<>> ELSE Head(parts) \o Concat(Tail(parts))

\* Every concatenation of at most MaxPieces pieces
ChunkTexts == UNION {{Concat([i \in 1..m |-> ChunkPieces[f[i]]]) :
                         f \in [1..m -> DOMAIN ChunkPieces]} : m \in 0..MaxPieces}

InitChunk ==
    /\ pc = "chunk_start"
    /\ NoOtherCall
    /\ text \in ChunkTexts
    /\ chunk_size \in ChunkSizes
    /\ chunk_overlap \in ChunkOverlaps
    /\ collection = <<>> /\ ret = None
    /\ line = None /\ val = None /\ label_patterns = "" /\ multiline = FALSE
    /\ result = None

\* intelligent_chunk(text, chunk_size, chunk_overlap)
CallIntelligentChunk ==
    /\ pc = "chunk_start"
    /\ ret' = IntelligentChunk(text, chunk_size, chunk_overlap)
    /\ pc' = "chunked"
    /\ UNCHANGED other_args
    /\ UNCHANGED <<text, chunk_size, chunk_overlap, collection, line, val,
                   label_patterns, multiline, result>>

\* process_and_store(file_path, filename, chunk_size, chunk_overlap) on a file
\* whose extracted text is text
ProcessAndStore ==
    /\ pc = "chunk_start"
    /\ \E r \in {IntelligentChunk(text, chunk_size, chunk_overlap)} :
          IF Strip(text) = <<>>
          THEN pc' = "failed" /\ ret' = Raise("ValueError") /\ UNCHANGED collection
          ELSE IF r.exc # ""
          THEN pc' = "failed" /\ ret' = r /\ UNCHANGED collection
          ELSE IF r.value = <<>>
          THEN pc' = "failed" /\ ret' = Raise("ValueError") /\ UNCHANGED collection
          ELSE /\ collection' = [i \in 1..Len(r.value) |->
                                    [id |-> i - 1, document |-> r.value[i],
                                     chunk_index |-> i - 1]]
               /\ ret' = Return(Len(r.value))
               /\ pc' = "stored"
    /\ UNCHANGED other_args
    /\ UNCHANGED <<text, chunk_size, chunk_overlap, line, val, label_patterns,
                   multiline, result>>

NextChunk == CallIntelligentChunk \/ ProcessAndStore
SpecChunk == InitChunk /\ [][NextChunk]_vars

Returned == pc = "chunked" /\ ret.exc = ""
TextLines == SplitOn(text, "\n")

\* C1: every chunk intelligent_chunk returns has trimmed length >= 20, and the
\* chunks process_and_store stores are those chunks, in order, with the
\* indices 0, 1, ..., n-1.
C1_ChunkLengthAndIndices ==
    /\ Returned => \A i \in DOMAIN ret.value : Len(Strip(ret.value[i])) >= 20
    /\ pc = "stored" =>
          /\ ret = Return(Len(collection))
          /\ \A i \in DOMAIN collection :
                /\ collection[i].chunk_index = i - 1
                /\ collection[i].id = i - 1
                /\ Len(Strip(collection[i].document)) >= 20

\* C1 witness: a document stored as several chunks
C1_Witness == pc = "stored" /\ Len(collection) >= 3

\* The text is one section that starts with a header line: its first line is a
\* boundary, it has further lines, and none of them is a boundary
HeaderSection ==
    /\ Len(TextLines) >= 2
    /\ IsSectionBoundary(TextLines[1])
    /\ \A k \in 2..Len(TextLines) : ~IsSectionBoundary(TextLines[k])
HeaderContent == Join(Tail(TextLines), <<"\n">>)

\* A section that starts at line i > 1 of the text and ends at line j
SectionAt(i, j) ==
    /\ 1 < i /\ i <= j /\ j <= Len(TextLines)
    /\ IsSectionBoundary(TextLines[i])
    /\ \A k \in (i + 1)..j : ~IsSectionBoundary(TextLines[k])
    /\ j = Len(TextLines) \/ IsSectionBoundary(TextLines[j + 1])

\* C2 as claimed: a header line followed by content shorter than chunk_size
\* is returned as the one chunk equal to the trimmed section.
C2_AsClaimed ==
    (Returned /\ HeaderSection /\ Len(HeaderContent) < chunk_size)
        => ret.value = <<Strip(text)>>

\* C2, amended: a section of a header line followed by content is returned as
\* exactly one chunk, the trimmed section, when the trimmed length of the
\* whole section (header and content) is at least 20 and at most chunk_size.
C2_SmallSectionIsOneChunk ==
    /\ (pc = "chunked" /\ HeaderSection
          /\ 20 <= Len(Strip(text)) /\ Len(Strip(text)) <= chunk_size)
        => ret = Return(<<Strip(text)>>)
    /\ Returned =>
          \A i, j \in DOMAIN TextLines :
              LET section == Strip(Join(SubSeq(TextLines, i, j), <<"\n">>))
              IN (SectionAt(i, j) /\ 20 <= Len(section) /\ Len(section) <= chunk_size)
                    => \E k \in DOMAIN ret.value : ret.value[k] = section

\* C2 witness: a header with content that fits, returned as one chunk
C2_Witness ==
    /\ pc = "chunked" /\ HeaderSection /\ Strip(HeaderContent) # <<>>
    /\ 20 <= Len(Strip(text)) /\ Len(Strip(text)) <= chunk_size
    /\ ret = Return(<<Strip(text)>>)

\* The text is a single sentence longer than chunk_size: one section, with no
\* sentence end (. ! or ? followed by whitespace) inside it
LongSentence ==
    LET s == Strip(text)
    IN /\ Len(s) > chunk_size
       /\ \A k \in 2..Len(TextLines) : ~IsSectionBoundary(TextLines[k])
       /\ \A i \in 1..(Len(s) - 1) : ~(s[i] \in {".", "!", "?"} /\ s[i + 1] \in Space)

\* C3 as claimed: the chunks of a single long sentence all have length
\* chunk_size except possibly the last, and consecutive chunks share exactly
\* chunk_overlap characters except possibly the last pair.
C3_AsClaimed ==
    (pc = "chunked" /\ LongSentence /\ 0 <= chunk_overlap /\ chunk_overlap < chunk_size)
        => /\ ret.exc = ""
           /\ LET c == ret.value
              IN \A i \in 1..(Len(c) - 1) :
                    /\ Len(c[i]) = chunk_size
                    /\ i < Len(c) - 1 =>
                          SubSeq(c[i], chunk_size - chunk_overlap + 1, chunk_size)
                              = SubSeq(c[i + 1], 1, chunk_overlap)

\* C3, amended: a single sentence longer than chunk_size is cut into windows
\* that start every chunk_size - chunk_overlap characters and are chunk_size
\* long unless they run past the end of the sentence (several trailing windows
\* can); each window is returned trimmed, and a window whose trimmed length is
\* below 20 is not returned.
C3_Windows ==
    (pc = "chunked" /\ LongSentence /\ 0 <= chunk_overlap /\ chunk_overlap < chunk_size)
        => LET s == Strip(text)
               step == chunk_size - chunk_overlap
               n == (Len(s) + step - 1) \div step
               windows == [k \in 1..n |->
                              SubSeq(s, (k - 1) * step + 1,
                                     Min((k - 1) * step + chunk_size, Len(s)))]
               trimmed == [k \in 1..n |-> Strip(windows[k])]
           IN /\ \A k \in 1..n : (k - 1) * step + chunk_size <= Len(s)
                                     => Len(windows[k]) = chunk_size
              /\ ret = Return(SelectSeq(trimmed, LAMBDA w : Len(w) >= 20))

\* C3 witness: a long sentence cut into overlapping windows
C3_Witness ==
    /\ pc = "chunked" /\ LongSentence
    /\ 0 < chunk_overlap /\ chunk_overlap < chunk_size
    /\ ret.exc = "" /\ Len(ret.value) >= 3

\* C4 as claimed: intelligent_chunk returns for every text, positive
\* chunk_size and non-negative chunk_overlap, and returns no chunk for a blank
\* text.
C4_AsClaimed ==
    (pc = "chunked" /\ chunk_size > 0 /\ chunk_overlap >= 0)
        => /\ ret.exc = ""
           /\ Strip(text) = <<>> => ret.value = <<>>

\* C5: with 0 <= chunk_overlap < chunk_size no returned chunk is longer than
\* chunk_size.
C5_ChunksWithinSize ==
    (Returned /\ chunk_size >= 1 /\ 0 <= chunk_overlap /\ chunk_overlap < chunk_size)
        => \A i \in DOMAIN ret.value : Len(ret.value[i]) <= chunk_size

\* C5 witness: a section longer than chunk_size returned as several chunks,
\* one of them two sentences packed together
C5_Witness ==
    /\ Returned /\ 0 <= chunk_overlap /\ chunk_overlap < chunk_size
    /\ Len(ret.value) >= 2
    /\ \E i \in DOMAIN ret.value : Contains(ret.value[i], <<"u","n","b","r","o","k","e","n","."," ","G","a","t","e">>)

(***************************************************************************)
(* The section test on one line: _is_section_boundary                      *)
(***************************************************************************)
\* The lines are these, with at most MaxPad blanks before and after
MaxPad == 1
Repeat(c, n) == [i \in 1..n |-> c]
BoundaryCores == {
    <<>>, <<"A","B","C">>, <<"A","B","C","D">>, <<"A","B","1">>, <<"1","2","3","4">>, <<"1","2","3","4"," ","A">>, <<"A"," ","B">>, <<"A"," ","B","C">>,
    <<"H","E","L","L","O"," ","W","O","R","L","D","!">>, <<"H","e","l","l","o"," ","W","O","R","L","D">>, <<"a","b","c","d">>, <<"A","b","c","d">>, <<"-","-","-","-">>, <<"N","O","T","E","S",":">>,
    Repeat("A", 79), Repeat("A", 80), Repeat("A", 78) \o <<"b">>, Repeat("7", 78) \o <<"Z">>,
    <<"S","H","I","P","M","E","N","T"," ","D","E","T","A","I","L","S">>, <<"S","h","i","p","m","e","n","t"," ","D","e","t","a","i","l","s">>, <<"s","h","i","p","m","e","n","t"," "," "," ","s","u","m","m","a","r","y">>,
    <<"s","h","i","p","m","e","n","t","d","e","t","a","i","l","s">>, <<"t","h","e"," ","s","h","i","p","m","e","n","t"," ","d","e","t","a","i","l","s">>, <<"s","h","i","p","m","e","n","t"," ","d","e","t","a","i","l">>,
    <<"S","h","i","p","p","e","r"," ","N","a","m","e",":"," ","A","c","m","e">>, <<"c","o","n","s","i","g","n","e","e"," ","i","n","f","o","r","m","a","t","i","o","n">>, <<"c","a","r","r","i","e","r"," ","n","a","m","e">>,
    <<"r","a","t","e"," ","c","o","n","f","i","r","m","a","t","i","o","n">>, <<"P","i","c","k","u","p"," ","T","i","m","e">>, <<"d","e","l","i","v","e","r","y"," ","d","a","t","e">>,
    <<"B","i","l","l"," ","o","f"," ","L","a","d","i","n","g">>, <<"b","i","l","l"," ","o","f"," "," ","l","a","d","i","n","g"," ","n","o">>, <<"b","i","l","l"," ","o","f">>, <<"f","r","e","i","g","h","t"," ","b","i","l","l">>,
    <<"s","p","e","c","i","a","l"," ","n","o","t","e","s">>, <<"e","q","u","i","p","m","e","n","t"," ","t","y","p","e">>, <<"T","e","r","m","s"," ","A","n","d"," ","C","o","n","d","i","t","i","o","n","s">>,
    <<"p","a","y","m","e","n","t"," ","t","e","r","m","s">>, <<"p","a","y","m","e","n","t"," ","i","n","f","o">>, <<"i","n","s","u","r","a","n","c","e">>, <<"C","l","a","i","m","s","x">>,
    <<"c","a","r","g","o">>, <<"c","a","r","g","o"," ","i","s">>, <<"C","a","r","g","o","x"," ","y">>, <<"g","o","o","d","s">>, <<"o","r","i","g","i","n"," ","x">>,
    <<"D","e","s","t","i","n","a","t","i","o","n","\t","x">>, <<"w","e","i","g","h","t"," ","5">>, <<"d","i","m","e","n","s","i","o","n","s","x">>,
    <<"#"," ","x">>, <<"#","#"," ","x">>, <<"#","#","#"," ","x">>, <<"#","#","#","#"," ","x">>, <<"#","x">>, <<"#">>, <<"a"," ","#"," ","x">> }
Blanks == {Repeat(c, n) : c \in {" ", "\t"}, n \in 0..MaxPad}
BoundaryLines == {a \o core \o b : a \in Blanks, b \in Blanks, core \in BoundaryCores}

InitBoundary ==
    /\ pc = "boundary_start"
    /\ NoOtherCall
    /\ line \in BoundaryLines
    /\ text = None /\ chunk_size = 0 /\ chunk_overlap = 0
    /\ collection = <<>> /\ ret = None
    /\ val = None /\ label_patterns = "" /\ multiline = FALSE
    /\ result = None

\* _is_section_boundary(line)
CallIsSectionBoundary ==
    /\ pc = "boundary_start"
    /\ ret' = IsSectionBoundary(line)
    /\ pc' = "boundary_done"
    /\ UNCHANGED other_args
    /\ UNCHANGED <<text, chunk_size, chunk_overlap, collection, line, val,
                   label_patterns, multiline, result>>

NextBoundary == CallIsSectionBoundary
SpecBoundary == InitBoundary /\ [][NextBoundary]_vars

\* C6: _is_section_boundary(line) is true exactly when the trimmed line is
\* non-empty and either matches one of the header patterns at its start,
\* whatever the letter case, or is entirely upper-case (it has an upper-case
\* letter and no lower-case letter) with a trimmed length between 4 and 79;
\* it is false for every empty or whitespace-only line.
C6_BoundaryExactly ==
    pc = "boundary_done" =>
        LET t == Strip(line)
            header == \E k \in DOMAIN SECTION_PATTERNS :
                          ReMatch(SECTION_PATTERNS[k], t, IgnoreCase).found
            upper == /\ \E i \in DOMAIN t : t[i] \in Upper
                     /\ \A i \in DOMAIN t : t[i] \notin Lower
        IN /\ ret = (t # <<>> /\ (header \/ (upper /\ 4 <= Len(t) /\ Len(t) <= 79)))
           /\ (\A i \in DOMAIN line : line[i] \in Space) => ret = FALSE
           /\ t \in {<<"s","h","i","p","m","e","n","t"," "," "," ","s","u","m","m","a","r","y">>, <<"#","#"," ","x">>, <<"C","l","a","i","m","s","x">>, <<"c","a","r","g","o"," ","i","s">>} => ret = TRUE
           /\ t \in {<<"t","h","e"," ","s","h","i","p","m","e","n","t"," ","d","e","t","a","i","l","s">>, <<"#","#","#","#"," ","x">>, <<"c","a","r","g","o">>, <<"A","B","C">>} => ret = FALSE

\* C6 witness: a padded line in capitals that no header pattern matches, of
\* trimmed length 4, judged a boundary
C6_Witness ==
    /\ pc = "boundary_done" /\ ret = TRUE
    /\ Strip(line) = <<"A","B","C","D">> /\ Len(line) > 4

(***************************************************************************)
(* The judgement of one extracted value: _is_junk_value                    *)
(***************************************************************************)
\* The values are the JunkSpecials and the lines of at most MaxJunkWords
\* words of JunkVocabulary, one blank between two words
MaxJunkWords == 4
JunkVocabulary == <<<<"c","a","r","r","i","e","r">>, <<"M","C">>, <<"p","h","o","n","e">>, <<"t","y","p","e">>, <<"x">>>>
JunkSpecials == {
    <<>>, <<"a">>, <<" ","a"," ">>, <<"a","b">>, <<" ","\t">>, <<"N","/","A">>, <<"n","/","a"," ">>, <<" ","T","b","d">>, <<"N","O","N","E">>,
    <<"n","u","l","l","s">>, <<"D","e","t","a","i","l","s">>, <<"d","e","t","a","i","l","s"," ","h","e","r","e">>, <<"-","-","-">>, <<"-","-","-"," ","x">>, <<"=","=","=">>,
    <<"=","=","=","x">>, <<" ","-","-","-","x">>, <<"=","=">>, <<"="," ","=">>, <<"-">>, <<"-"," ","-">>, <<" ","-","-"," ">>, <<"-","-","\n">>,
    <<"-","x","-">>, <<"a","|","b">>, <<"a","|","b","|","c">>, <<"|","|">>, <<"|"," ","|","x">>, <<"F","a","s","t","F","r","e","i","g","h","t"," ","L","L","C">>,
    <<"C","a","r","r","i","e","r"," ","M","C"," ","P","h","o","n","e"," ","E","q","u","i","p","m","e","n","t"," ","A","m","o","u","n","t">>, <<"A","c","m","e",","," ","I","n","c","."," ","#","4">>,
    <<"c","i","t","y"," "," ","s","t","a","t","e","\t","z","i","p"," ","c","o","d","e">>, <<"N","a","m","e"," ","A","d","d","r","e","s","s"," ","C","i","t","y">> }
JunkVals ==
    JunkSpecials \cup
    UNION {{Join([i \in 1..m |-> JunkVocabulary[f[i]]], <<" ">>) :
               f \in [1..m -> DOMAIN JunkVocabulary]} : m \in 1..MaxJunkWords}

InitJunk ==
    /\ pc = "junk_start"
    /\ NoOtherCall
    /\ val \in JunkVals
    /\ text = None /\ chunk_size = 0 /\ chunk_overlap = 0
    /\ collection = <<>> /\ ret = None
    /\ line = None /\ label_patterns = "" /\ multiline = FALSE
    /\ result = None

\* _is_junk_value(val)
CallIsJunkValue ==
    /\ pc = "junk_start"
    /\ ret' = IsJunkValue(val)
    /\ pc' = "junk_done"
    /\ UNCHANGED other_args
    /\ UNCHANGED <<text, chunk_size, chunk_overlap, collection, line, val,
                   label_patterns, multiline, result>>

NextJunk == CallIsJunkValue
SpecJunk == InitJunk /\ [][NextJunk]_vars

\* The words of val, lower-cased, as they follow each other, and those of them
\* that are table-header keywords
ValWords == SplitWs(StrLower(val))
ValKeywords == {w \in Range(ValWords) : w \in header_keywords}

\* C7 as claimed: a string with at least 3 table-header keywords among at
\* least 4 words, the words counted with repetition, is junk.
C7_AsClaimed ==
    (pc = "junk_done" /\ Cardinality(ValKeywords) >= 3 /\ Len(ValWords) >= 4)
        => ret = TRUE

\* C7, amended: a string with at least 3 different table-header keywords
\* among at least 4 different lower-cased words is junk; a repeated word
\* counts once.
C7_DistinctWords ==
    (pc = "junk_done" /\ Cardinality(ValKeywords) >= 3
                      /\ Cardinality(Range(ValWords)) >= 4)
        => ret = TRUE

\* C7 witness: exactly 3 keywords and a fourth word, judged junk for that
\* reason alone
C7_Witness ==
    /\ pc = "junk_done" /\ ret = TRUE
    /\ Cardinality(ValKeywords) = 3 /\ Cardinality(Range(ValWords)) = 4
    /\ Range(ValWords) \cap skip_words = {}
    /\ \A i \in DOMAIN val : val[i] \notin {"|", "-", "="}

\* C8: _is_junk_value is true for a string of fewer than 2 trimmed
\* characters, for a stoplist word in any letter case, for a string that
\* starts with --- or ===, for a string of whitespace and dashes only and for
\* a string with 2 or more pipes; a string that meets none of these and is
\* not a table header (3 keywords among 4 different words) is accepted.
C8_JunkConditions ==
    pc = "junk_done" =>
        LET t == Strip(val)
            short == Len(t) < 2
            stop == Strip(StrLower(val)) \in skip_words
            rule == Len(val) >= 3 /\ SubSeq(val, 1, 3) \in {<<"-","-","-">>, <<"=","=","=">>}
            dashes == val # <<>> /\ \A i \in DOMAIN val : val[i] \in Space \cup {"-"}
            pipes == Cardinality({i \in DOMAIN val : val[i] = "|"}) >= 2
            header == Cardinality(ValKeywords) >= 3 /\ Cardinality(Range(ValWords)) >= 4
        IN /\ (short \/ stop \/ rule \/ dashes \/ pipes) => ret = TRUE
           /\ ~(short \/ stop \/ rule \/ dashes \/ pipes \/ header) => ret = FALSE
           /\ val \in {<<"N","/","A">>, <<"-","-","-">>, <<"C","a","r","r","i","e","r"," ","M","C"," ","P","h","o","n","e"," ","E","q","u","i","p","m","e","n","t"," ","A","m","o","u","n","t">>} => ret = TRUE
           /\ val = <<"F","a","s","t","F","r","e","i","g","h","t"," ","L","L","C">> => ret = FALSE

\* C8 witness: a stoplist word written in capitals judged junk
C8_Witness == pc = "junk_done" /\ val = <<"N","/","A">> /\ ret = TRUE

(***************************************************************************)
(* The search for a labelled value: _find_value_after_label                *)
(***************************************************************************)
\* The texts are at most MaxLabelLines of these lines
MaxLabelLines == 2
LabelLines == <<
    <<"S","h","i","p","p","e","r",":"," ","N","/","A">>,
    <<"S","h","i","p","p","e","r"," ","N","a","m","e",":"," "," ","B","o","l","t"," ","F","r","e","i","g","h","t"," "," ">>,
    <<"S","h","i","p"," ","f","r","o","m",":"," ">> \o Repeat("w", 149) \o <<" ","y","z">>,
    <<"S","h","i","p","p","e","r",":">>,
    <<"S","h","i","p"," ","f","r","o","m",":"," ","A","C","M","E"," ","L","o","g","i","s","t","i","c","s">>,
    <<"O","r","i","g","i","n"," ","c","o","m","p","a","n","y"," ",":"," ","-","-","-">>,
    <<"M","o","d","e",":"," ","F","T","L">>,
    <<"m","o","d","e"," ",":"," ","t","b","d">>,
    <<"S","e","r","v","i","c","e"," ","T","y","p","e",":"," ","C","a","r","r","i","e","r"," ","M","C"," ","P","h","o","n","e"," ","T","y","p","e">>,
    <<"L","o","a","d"," ","T","y","p","e",":"," ","I","n","t","e","r","m","o","d","a","l">>
>>
LabelTexts ==
    UNION {{Join([i \in 1..m |-> LabelLines[f[i]]], <<"\n">>) :
               f \in [1..m -> DOMAIN LabelLines]} : m \in 0..MaxLabelLines}

InitLabel ==
    /\ pc = "label_start"
    /\ NoOtherCall
    /\ text \in LabelTexts
    /\ label_patterns \in {"shipper_patterns", "mode_patterns"}
    /\ multiline \in BOOLEAN
    /\ chunk_size = 0 /\ chunk_overlap = 0
    /\ collection = <<>> /\ ret = None
    /\ line = None /\ val = None
    /\ result = None

\* _find_value_after_label(text, label_patterns, multiline)
CallFindValueAfterLabel ==
    /\ pc = "label_start"
    /\ ret' = FindValueAfterLabel(text, PatternList(label_patterns), multiline)
    /\ pc' = "label_done"
    /\ UNCHANGED other_args
    /\ UNCHANGED <<text, chunk_size, chunk_overlap, collection, line, val,
                   label_patterns, multiline, result>>

NextLabel == CallFindValueAfterLabel
SpecLabel == InitLabel /\ [][NextLabel]_vars

\* What pattern k of label_patterns finds in text: the trimmed first group of
\* its first match, or None without a match
LabelCapture(k) ==
    LET m == ReSearch(PatternList(label_patterns)[k], text, Flags(TRUE, multiline))
    IN IF m.found THEN Strip(Group(text, m, 1)) ELSE None
LabelCaptures == [k \in DOMAIN PatternList(label_patterns) |-> LabelCapture(k)]
\* The patterns, of those with the captures caps, with a match that is not junk
LabelQualifying(caps) == {k \in DOMAIN caps : caps[k] # None /\ ~IsJunkValue(caps[k])}

\* C9: _find_value_after_label returns the trimmed first group, cut to 150
\* characters, of the earliest pattern of the list whose match is not junk;
\* a junk match counts as no match; without such a pattern it returns None.
C9_FirstNonJunkPattern ==
    pc = "label_done" =>
        LET caps == LabelCaptures
            qualifying == LabelQualifying(caps)
        IN /\ qualifying = {} => ret = None
           /\ qualifying # {} =>
                 LET k == CHOOSE q \in qualifying : \A o \in qualifying : q <= o
                     v == caps[k]
                 IN /\ ret = SubSeq(v, 1, IF Len(v) < 150 THEN Len(v) ELSE 150)
                    /\ Len(ret) <= 150
           /\ (text = <<"S","h","i","p","p","e","r",":"," ","N","/","A","\n","S","h","i","p"," ","f","r","o","m",":"," ","A","C","M","E"," ","L","o","g","i","s","t","i","c","s">>
                 /\ label_patterns = "shipper_patterns") => ret = <<"A","C","M","E"," ","L","o","g","i","s","t","i","c","s">>

\* C9 witness: the first pattern matched junk, and a later pattern gave a
\* value of more than 150 characters, returned as its first 150
C9_Witness ==
    /\ pc = "label_done" /\ ret # None /\ Len(ret) = 150
    /\ LET caps == LabelCaptures
       IN /\ caps[1] # None /\ IsJunkValue(caps[1])
          /\ \E k \in LabelQualifying(caps) : k > 1 /\ Len(caps[k]) > 150

(***************************************************************************)
(* The rate of a rate confirmation: the rate block of _extract_with_regex  *)
(***************************************************************************)
\* The texts are at most MaxRatePhrases of these phrases, one to a line
MaxRatePhrases == 2
RatePhrases == <<
    <<"T","O","T","A","L"," ","D","U","E",":"," ","$","2",",","5","0","0",".","0","0">>,
    <<"t","o","t","a","l"," ","5"," ","U","S","D">>,
    <<"c","a","r","r","i","e","r"," ","p","a","y"," ","t","o","t","a","l"," ","9","0","0","u","s","d">>,
    <<"a","l","l","-","i","n"," ","r","a","t","e",":"," ","1","0",".","0","1">>,
    <<"L","i","n","e"," ","H","a","u","l"," ","R","a","t","e"," ","="," ","$","1","0">>,
    <<"R","a","t","e",":"," ","1","5">>,
    <<"r","a","t","e",":"," ",",">>,
    <<"a","m","o","u","n","t",":"," ","$"," ","1",",","0","0","0",",","0","0","0">>,
    <<"$"," ","4","5",".","0","0">>,
    <<"$","1",",","2","3","4",".","5","6">>,
    <<"$"," ","5",".","0","0">>
>>
RateTexts ==
    UNION {{Join([i \in 1..m |-> RatePhrases[f[i]]], <<"\n">>) :
               f \in [1..m -> DOMAIN RatePhrases]} : m \in 0..MaxRatePhrases}

InitRate ==
    /\ pc = "rate_start"
    /\ NoOtherCall
    /\ text \in RateTexts
    /\ result = EmptyDict
    /\ chunk_size = 0 /\ chunk_overlap = 0
    /\ collection = <<>> /\ ret = None
    /\ line = None /\ val = None /\ label_patterns = "" /\ multiline = FALSE

\* The rate block of _extract_with_regex(text): the loop over rate_patterns
\* and the fallback on standalone dollar amounts
ExtractRateBlock ==
    /\ pc = "rate_start"
    /\ result' = ExtractRate(text, result)
    /\ pc' = "rate_done"
    /\ UNCHANGED other_args
    /\ UNCHANGED <<text, chunk_size, chunk_overlap, collection, line, val,
                   label_patterns, multiline, ret>>

NextRate == ExtractRateBlock
SpecRate == InitRate /\ [][NextRate]_vars

\* The number rate pattern k captures in text, its commas removed, or None
\* without a match
RateCapture(k) ==
    LET m == ReSearch(rate_patterns[k], text, IgnoreCase)
    IN IF m.found THEN Strip(Remove(Group(text, m, 1), ",")) ELSE None
RateCaptures == [k \in DOMAIN rate_patterns |-> RateCapture(k)]
\* s is a number strictly between 10 and 1,000,000
RateInRange(s) ==
    LET x == ParseFloat(s)
    IN x.exc = "" /\ 10 * x.value.den < x.value.num
                  /\ x.value.num < 1000000 * x.value.den
\* The rate patterns, of those with the captures caps, whose match is such a
\* number
RateQualifying(caps) == {k \in DOMAIN caps : caps[k] # None /\ RateInRange(caps[k])}

\* C10: the rate is the number captured by the first rate pattern whose match
\* parses to a value strictly between 10 and 1,000,000, its commas removed;
\* a match out of that range or not a number is passed over; every rate in
\* the record is strictly between 10 and 1,000,000; the text
\* "TOTAL DUE: $2,500.00" gives the rate "2500.00".
C10_RateInRange ==
    pc = "rate_done" =>
        LET caps == RateCaptures
            qualifying == RateQualifying(caps)
        IN /\ qualifying # {} =>
                 LET k == CHOOSE q \in qualifying : \A o \in qualifying : q <= o
                 IN "rate" \in DOMAIN result /\ result["rate"] = caps[k]
           /\ "rate" \in DOMAIN result => RateInRange(result["rate"])
           /\ text = <<"T","O","T","A","L"," ","D","U","E",":"," ","$","2",",","5","0","0",".","0","0">> => result = [x \in {"rate"} |-> <<"2","5","0","0",".","0","0">>]

\* C10 witness: an earlier pattern matched a number out of range and a later
\* pattern gave the rate
C10_Witness ==
    /\ pc = "rate_done" /\ "rate" \in DOMAIN result
    /\ LET caps == RateCaptures
       IN \E k \in RateQualifying(caps) :
             /\ result["rate"] = caps[k]
             /\ \E j \in 1..(k - 1) : caps[j] # None /\ ~RateInRange(caps[j])

\* The dollar-prefixed decimal amounts of the text, \$\s*([\d,]+\.\d{2}), in
\* cents
DollarCents ==
    LET found == ReFindAll(DollarAmount, text, NoFlags)
    IN {DigitsValue(Remove(Remove(found[i], ","), ".")) : i \in DOMAIN found}

\* C11: when no rate pattern gives an accepted rate, the rate is the largest
\* dollar-prefixed decimal amount of the text strictly between 10 and
\* 1,000,000, written with two decimals, and absent without such an amount;
\* when a pattern gives an accepted rate the amounts are not looked at.
C11_DollarFallback ==
    pc = "rate_done" =>
        LET caps == RateCaptures
            qualifying == RateQualifying(caps)
            amounts == {c \in DollarCents : 1000 < c /\ c < 100000000}
        IN /\ (qualifying = {} /\ amounts = {}) => "rate" \notin DOMAIN result
           /\ (qualifying = {} /\ amounts # {}) =>
                 LET best == CHOOSE a \in amounts : \A b \in amounts : b <= a
                 IN /\ "rate" \in DOMAIN result
                    /\ result["rate"] = NatDigits(best \div 100) \o <<".">>
                                          \o NatDigits((best % 100) \div 10)
                                          \o NatDigits(best % 10)
           /\ qualifying # {} =>
                 /\ "rate" \in DOMAIN result
                 /\ \E k \in qualifying : result["rate"] = caps[k]
           /\ text = <<"$"," ","4","5",".","0","0","\n","$","1",",","2","3","4",".","5","6">> => result = [x \in {"rate"} |-> <<"1","2","3","4",".","5","6">>]
           /\ text = <<"$"," ","5",".","0","0">> => result = EmptyDict
           /\ text = <<"R","a","t","e",":"," ","1","5","\n","$","1",",","2","3","4",".","5","6">> => result = [x \in {"rate"} |-> <<"1","5">>]

\* C11 witness: no pattern gave a rate, and the larger of two different
\* amounts in range became the rate
C11_Witness ==
    /\ pc = "rate_done" /\ "rate" \in DOMAIN result
    /\ RateQualifying(RateCaptures) = {}
    /\ Cardinality({c \in DollarCents : 1000 < c /\ c < 100000000}) >= 2

(***************************************************************************)
(* The extraction of the fields: _extract_with_regex called on a text      *)
(***************************************************************************)
\* The texts are made of at most MaxPhrases lines
MaxPhrases == 2

\* Every text of at most n of the given lines
LinesTexts(phrases, n) ==
    UNION {{Join([i \in 1..m |-> phrases[f[i]]], <<"\n">>) :
               f \in [1..m -> DOMAIN phrases]} : m \in 0..n}

\* A first call on one of the texts; collection is the log of the calls
InitExtract(texts) ==
    /\ pc = "extract_start"
    /\ NoOtherCall
    /\ text \in texts
    /\ collection = <<>> /\ ret = None /\ result = None
    /\ chunk_size = 0 /\ chunk_overlap = 0
    /\ line = None /\ val = None /\ label_patterns = "" /\ multiline = FALSE

\* _extract_with_regex(text): result is the dict it returns
CallExtractWithRegex ==
    /\ pc = "extract_start"
    /\ \E r \in {ExtractWithRegex(text, FreshResult(result))} :
          /\ ret' = r
          /\ result' = IF r.exc = "" THEN r.value.result ELSE result
          /\ collection' = Append(collection, [text |-> text, ret |-> r])
    /\ pc' = "extract_done"
    /\ UNCHANGED other_args
    /\ UNCHANGED <<text, chunk_size, chunk_overlap, line, val, label_patterns, multiline>>

WeightPhrases == <<
    <<"W","e","i","g","h","t",":"," ","4","2",",","5","0","0"," ","l","b","s">>,
    <<"g","r","o","s","s"," ","w","e","i","g","h","t"," ","4","9"," ","k","g">>,
    <<"t","o","t","a","l"," ","w","e","i","g","h","t",":"," ","5","0",".","0"," ","t","o","n","s">>,
    <<"w","e","i","g","h","t",":"," ",","," ","l","b","s">>,
    <<"1",",","2","0","0"," ","p","o","u","n","d","s">>,
    <<"1","2"," ","l","b","s">>,
    <<",",",",","," ","L","B","S">>,
    <<"w","e","i","g","h","t"," ","4","9",".","9","9"," ","l","b">>
>>

SpecWeight == InitExtract(LinesTexts(WeightPhrases, MaxPhrases))
                 /\ [][CallExtractWithRegex]_vars

\* What weight pattern k captures in the text: the number and the unit
WeightCapture(k) ==
    LET match == ReSearch(weight_patterns[k], text, IgnoreCase)
    IN IF match.found
       THEN [found |-> TRUE, num |-> Group(text, match, 1), unit |-> Group(text, match, 2)]
       ELSE [found |-> FALSE]
WeightCaptures == [k \in DOMAIN weight_patterns |-> WeightCapture(k)]

\* The digits of a captured number before its point, commas left out
WholePart(num) ==
    LET plain == Remove(num, ",")
        points == {i \in DOMAIN plain : plain[i] = "."}
    IN IF points = {} THEN plain ELSE SubSeq(plain, 1, (CHOOSE i \in points : TRUE) - 1)

\* A captured number is at least 50 when it has a digit and its whole part is
\* at least 50
AtLeastFifty(num) ==
    /\ \E i \in DOMAIN num : num[i] \in Digit
    /\ DigitsValue(WholePart(num)) >= 50

WeightUnits == {<<"l","b">>, <<"l","b","s">>, <<"k","g">>, <<"t","o","n">>, <<"t","o","n","s">>, <<"p","o","u","n","d">>, <<"p","o","u","n","d","s">>}

\* C12: the weight is the number and the unit captured by the first weight
\* pattern, in list order, whose capture is a number of at least 50; a capture
\* below 50 or not a number passes to the next pattern; the weight is absent
\* when no pattern qualifies, so a weight that is present is a number of at
\* least 50 followed by its unit.
C12_FirstHeavyWeight ==
    (pc = "extract_done") =>
        LET caps == WeightCaptures
            qualifying == {k \in DOMAIN caps : caps[k].found /\ AtLeastFifty(caps[k].num)}
        IN /\ ret.exc = ""
           /\ qualifying = {} <=> "weight" \notin DOMAIN result
           /\ qualifying # {} =>
                 LET k == CHOOSE i \in qualifying : \A j \in qualifying : i <= j
                 IN result["weight"] = caps[k].num \o <<" ">> \o caps[k].unit
           /\ "weight" \in DOMAIN result =>
                 LET parts == SplitWs(result["weight"])
                 IN /\ Len(parts) = 2
                    /\ AtLeastFifty(parts[1])
                    /\ StrLower(parts[2]) \in WeightUnits
           /\ text = <<"W","e","i","g","h","t",":"," ","4","2",",","5","0","0"," ","l","b","s">> => result["weight"] = <<"4","2",",","5","0","0"," ","l","b","s">>
           /\ text = <<"t","o","t","a","l"," ","w","e","i","g","h","t",":"," ","5","0",".","0"," ","t","o","n","s">> => result["weight"] = <<"5","0",".","0"," ","t","o","n","s">>
           /\ text = <<"w","e","i","g","h","t"," ","4","9",".","9","9"," ","l","b">> => "weight" \notin DOMAIN result
           /\ text = <<"w","e","i","g","h","t",":"," ",","," ","l","b","s","\n","1","2"," ","l","b","s">> => "weight" \notin DOMAIN result

\* C12 witness: the first pattern captured a weight below 50 or no number, and
\* a later pattern gave the weight
C12_Witness ==
    /\ pc = "extract_done" /\ "weight" \in DOMAIN result
    /\ WeightCapture(1).found /\ ~AtLeastFifty(WeightCapture(1).num)
    /\ result["weight"] = <<"1",",","2","0","0"," ","p","o","u","n","d","s">>

(***************************************************************************)
(* The currency                                                            *)
(***************************************************************************)
CurrencyPhrases == <<
    <<"T","o","t","a","l",":"," ","$","1",",","5","0","0",".","0","0">>,
    <<"R","a","t","e",":"," ","9","0","0"," ","u","s","d">>,
    <<"p","a","i","d"," ","i","n"," ","C","a","d">>,
    <<"A","m","o","u","n","t"," ","7","0","0"," ","E","U","R">>,
    <<Euro>> \o <<" ","2","0">>,
    <<"1","2","0"," ","g","b","p">>,
    <<Pound>> \o <<"3","5">>,
    <<"a","n"," ","a","m","a","t","e","u","r"," ","c","a","d","i","l","l","a","c">>,
    <<"n","o"," ","m","a","r","k","e","r"," ","h","e","r","e">>
>>

SpecCurrency == InitExtract(LinesTexts(CurrencyPhrases, MaxPhrases))
                   /\ [][CallExtractWithRegex]_vars

\* The text holds the currency code, in any letter case
HasCode(code) == Contains(StrUpper(text), code)
\* The text holds the currency symbol
HasSymbol(symbol) == Contains(text, <<symbol>>)

\* The currency the priority order gives the text, None for none
PriorityCurrency ==
    IF HasSymbol("$") \/ HasCode(<<"U","S","D">>) THEN <<"U","S","D">>
    ELSE IF HasCode(<<"C","A","D">>) THEN <<"C","A","D">>
    ELSE IF HasCode(<<"E","U","R">>) \/ HasSymbol(Euro) THEN <<"E","U","R">>
    ELSE IF HasCode(<<"G","B","P">>) \/ HasSymbol(Pound) THEN <<"G","B","P">>
    ELSE None

KeywordPhrases == <<
    <<"a"," ","f","l","a","t","b","e","d"," ","a","n","d"," ","a"," ","4","8","'"," ","d","r","y"," ","v","a","n">>,
    <<"T","r","a","i","l","e","r"," ","T","y","p","e",":"," ","N","/","A">>,
    <<"E","q","u","i","p","m","e","n","t",":"," ","C","o","n","e","s","t","o","g","a">>,
    <<"s","p","r","i","n","t","e","r"," ","l","o","a","d">>,
    <<"L","T","L"," ","a","n","d"," ","F","u","l","l"," ","T","r","u","c","k","l","o","a","d">>,
    <<"M","o","d","e",":"," ","R","a","i","l">>,
    <<"M","o","d","e",":"," ","-","-","-">>,
    <<"o","c","e","a","n"," ","p","a","r","t","i","a","l">>,
    <<"R","E","E","F","E","R"," ","5","3","F","T">>,
    <<"n","o"," ","k","e","y","w","o","r","d">>
>>

SpecKeyword == InitExtract(LinesTexts(KeywordPhrases, MaxPhrases))
                  /\ [][CallExtractWithRegex]_vars

\* The value the label patterns yield, None when they yield none that is not
\* junk
LabelYield(patterns) ==
    LET v == FindValueAfterLabel(text, patterns, FALSE)
    IN IF v # None /\ ~IsJunkValue(v) THEN v ELSE None

\* The entries of the table whose keyword occurs in s
KeywordHits(kws, s) == {k \in DOMAIN kws : Contains(s, kws[k][1])}

\* The field is the canonical value of the first entry of the table, in table
\* order, whose keyword occurs in s, and absent when none occurs
FromTable(field, kws, s) ==
    LET hits == KeywordHits(kws, s)
    IN IF hits = {} THEN field \notin DOMAIN result
       ELSE /\ field \in DOMAIN result
            /\ \E k \in hits : /\ \A j \in hits : k <= j
                               /\ result[field] = kws[k][2]

\* C14: for equipment_type and mode the keyword table is consulted only when
\* no label pattern yields a value that is not junk; the field is then the
\* canonical value of the first table entry, in table order and wherever its
\* keyword stands in the text, whose keyword occurs in the lower-cased
\* (equipment) or upper-cased (mode) text, and it is absent when no keyword
\* occurs.
C14_KeywordTables ==
    (pc = "extract_done") =>
        LET equip == LabelYield(equip_patterns)
            mode_val == LabelYield(mode_patterns)
        IN /\ ret.exc = ""
           /\ equip # None => result["equipment_type"] = Slice(equip, 0, 50)
           /\ equip = None => FromTable("equipment_type", equip_kws, StrLower(text))
           /\ mode_val # None => result["mode"] = Strip(mode_val)
           /\ mode_val = None => FromTable("mode", mode_kws, StrUpper(text))
           /\ text = <<"a"," ","f","l","a","t","b","e","d"," ","a","n","d"," ","a"," ","4","8","'"," ","d","r","y"," ","v","a","n">>
                 => result["equipment_type"] = <<"4","8","'"," ","D","r","y"," ","V","a","n">>
           /\ text = <<"L","T","L"," ","a","n","d"," ","F","u","l","l"," ","T","r","u","c","k","l","o","a","d">> => result["mode"] = <<"F","T","L">>
           /\ text = <<"E","q","u","i","p","m","e","n","t",":"," ","C","o","n","e","s","t","o","g","a","\n","s","p","r","i","n","t","e","r"," ","l","o","a","d">>
                 => result["equipment_type"] = <<"C","o","n","e","s","t","o","g","a">>
           /\ text = <<"T","r","a","i","l","e","r"," ","T","y","p","e",":"," ","N","/","A","\n","s","p","r","i","n","t","e","r"," ","l","o","a","d">>
                 => result["equipment_type"] = <<"S","p","r","i","n","t","e","r"," ","V","a","n">>
           /\ text = <<"n","o"," ","k","e","y","w","o","r","d">>
                 => "equipment_type" \notin DOMAIN result /\ "mode" \notin DOMAIN result

\* C14 witness: a label with a junk value, and two keywords of the table in
\* the text, the one that comes later in the text being the earlier entry
C14_Witness ==
    /\ pc = "extract_done"
    /\ FindValueAfterLabel(text, mode_patterns, FALSE) = None
    /\ Contains(text, <<"M","o","d","e",":"," ","-","-","-">>)
    /\ \E k, j \in KeywordHits(mode_kws, StrUpper(text)) :
          /\ k < j
          /\ Find(StrUpper(text), mode_kws[k][1]) > Find(StrUpper(text), mode_kws[j][1])
          /\ result["mode"] = mode_kws[k][2]

(***************************************************************************)
(* The carrier of a table row: _parse_carrier_from_row called on a line    *)
(***************************************************************************)
RowNames == <<
    <<"A","c","m","e"," ","T","r","u","c","k","i","n","g">>,
    <<"a","b">>,
    <<"o","n","e"," ","t","w","o"," ","t","h","r","e","e"," ","f","o","u","r"," ","f","i","v","e"," ","s","i","x"," ","s","e","v","e","n"," ","e","i","g","h","t">>,
    <<"o","n","e"," ","t","w","o"," ","t","h","r","e","e"," ","f","o","u","r"," ","f","i","v","e"," ","s","i","x">>,
    <<"C","a","r","r","i","e","r"," ","M","C"," ","P","h","o","n","e"," ","E","q","u","i","p","m","e","n","t">>,
    <<"N","/","A">>,
    <<"J"," ","B"," ","H","u","n","t"," ","T","r","a","n","s","p","o","r","t"," ","S","e","r","v","i","c","e","s"," ","I","n","c"," ","o","f"," ","T","e","x","a","s">>,
    <<>>
>>
RowRests == <<
    <<>>,
    <<" ","M","C","-","1","2","3","4","5","6">>,
    <<" ","(","5","5","5",")"," ","1","2","3","-","4","5","6","7">>,
    <<" ","$","1",",","2","0","0",".","0","0">>,
    <<" "," ","D","a","l","l","a","s"," ","T","X">>,
    <<" "," ","C","a","r","r","i","e","r"," ","M","C"," ","P","h","o","n","e"," ","E","q","u","i","p","m","e","n","t">>,
    <<" ","m","c"," ","l","t","d">>,
    <<" "," ","d","o","c","k"," ","4"," ","r","e","a","r"," ","g","a","t","e"," ","a","t"," ","D","a","l","l","a","s"," ","T","X">>
>>
\* The rows: a name followed by the rest of the row, stripped as the caller
\* strips its candidate
RowLines == {Strip(RowNames[i] \o RowRests[j]) : i \in DOMAIN RowNames, j \in DOMAIN RowRests}

InitRow ==
    /\ pc = "row_start"
    /\ NoOtherCall
    /\ line \in RowLines
    /\ text = <<>> /\ collection = <<>> /\ ret = None /\ result = None
    /\ chunk_size = 0 /\ chunk_overlap = 0
    /\ val = None /\ label_patterns = "" /\ multiline = FALSE

\* _parse_carrier_from_row(line)
CallParseCarrierFromRow ==
    /\ pc = "row_start"
    /\ ret' = Return(ParseCarrierFromRow(line))
    /\ pc' = "row_done"
    /\ UNCHANGED other_args
    /\ UNCHANGED <<text, chunk_size, chunk_overlap, collection, line, val,
                   label_patterns, multiline, result>>

SpecRow == InitRow /\ [][CallParseCarrierFromRow]_vars

\* Where the row has an MC number, a phone number or a dollar amount after
\* whitespace: the positions (from 1) of the first character of the marker
MarkerAt ==
    {i \in 3..Len(line) :
        /\ line[i - 1] \in Space
        /\ \/ /\ SubSeq(line, i, i + 1) = <<"M","C">>
              /\ \/ i + 2 <= Len(line) /\ line[i + 2] \in Digit
                 \/ /\ i + 3 <= Len(line) /\ line[i + 2] \in Space \cup {"-"}
                    /\ line[i + 3] \in Digit
           \/ /\ i + 4 <= Len(line) /\ line[i] = "(" /\ line[i + 4] = ")"
              /\ \A k \in (i + 1)..(i + 3) : line[k] \in Digit
           \/ i + 1 <= Len(line) /\ line[i] = "$" /\ line[i + 1] \in Digit}

\* Two whitespace characters in a row
HasDoubleSpace == \E i \in 1..(Len(line) - 1) : line[i] \in Space /\ line[i + 1] \in Space

\* C15 as claimed: three heuristics in decreasing strictness, and a line of
\* more than 6 words with no marker and no double-space column gives None.
C15_AsClaimed ==
    (pc = "row_done" /\ line # <<>> /\ ~IsJunkValue(line)) =>
        /\ ret.exc = ""
        /\ (MarkerAt = {} /\ ~HasDoubleSpace /\ Len(SplitWs(line)) > CarrierMaxWords)
              => ret.value = None
        /\ (MarkerAt = {} /\ ~HasDoubleSpace /\ Len(SplitWs(line)) <= CarrierMaxWords)
              => ret.value = line

(***************************************************************************)
(* The lengths of the fields                                               *)
(***************************************************************************)
LengthPhrases == <<
    <<"o","r","i","g","i","n"," ">> \o Repeat("a", 145) \o <<" ","1","2",","," ","2","0","2","4">>,
    <<"P","i","c","k","u","p"," ","D","a","t","e",":"," ","0","3","/","0","4","/","2","0","2","5">>,
    <<"S","h","i","p","p","e","r",":"," ">> \o Concat(Repeat(<<"A","c","m","e"," ">>, 24)),
    <<"E","q","u","i","p","m","e","n","t",":"," ">> \o Concat(Repeat(<<"v","a","n"," ">>, 15)),
    <<"d","e","l","i","v","e","r"," ","b","y"," ">> \o Repeat("b", 150) \o <<" ","1"," ","2","0","2","5">>,
    <<"R","a","t","e",":"," ","1",",","5","0","0",".","0","0">>,
    <<"w","e","i","g","h","t",":"," ","4","2",",","5","0","0"," ","l","b","s">>,
    <<"C","a","r","r","i","e","r"," ","N","a","m","e",":"," ">> \o Repeat("c", 110)
>>

SpecLength == InitExtract(LinesTexts(LengthPhrases, MaxPhrases))
                 /\ [][CallExtractWithRegex]_vars

\* C16 as claimed: every field of the record returned is a string of at most
\* 150 characters, for every text, the dates, the rate and the weight
\* included.
C16_AsClaimed ==
    (pc = "extract_done") =>
        /\ ret.exc = ""
        /\ \A f \in DOMAIN result : Len(result[f]) <= LabelValueMaxLen

(***************************************************************************)
(* The notes and the confidence: _extract_with_regex and                   *)
(* _extract_with_regex_pipeline called on a text                           *)
(***************************************************************************)
NotesPhrases == <<
    <<"L","o","a","d"," ","I","D",":"," ","L","-","1","0","0","1","\n","S","h","i","p","p","e","r",":"," ","A","c","m","e"," ","C","o","r","p","\n","C","o","n","s","i","g","n","e","e",":"," ","B","e","t","a"," ","L","L","C","\n","P","i","c","k","u","p"," ","D","a","t","e",":"," ","0","3","/","0","4","/","2","0","2","5","\n","D","e","l","i","v","e","r","y"," ","D","a","t","e",":"," ","0","3","/","0","6","/","2","0","2","5","\n","E","q","u","i","p","m","e","n","t",":"," ","F","l","a","t","b","e","d","\n","M","o","d","e",":"," ","F","T","L","\n","R","a","t","e",":"," ","$","1",",","5","0","0",".","0","0","\n","W","e","i","g","h","t",":"," ","4","2",",","5","0","0"," ","l","b","s","\n","C","a","r","r","i","e","r"," ","N","a","m","e",":"," ","F","a","s","t"," ","F","r","e","i","g","h","t">>,
    <<"S","h","i","p","p","e","r",":"," ","A","c","m","e"," ","C","o","r","p">>,
    <<"R","a","t","e",":"," ","$","1",",","5","0","0",".","0","0">>,
    <<"n","o","t","h","i","n","g"," ","t","o"," ","f","i","n","d">>,
    <<"M","o","d","e",":"," ","F","T","L","\n","w","e","i","g","h","t"," ","7","0"," ","k","g">>,
    <<"C","o","n","s","i","g","n","e","e",":"," ","B","e","t","a"," ","L","L","C">>,
    <<"C","a","r","r","i","e","r"," ","N","a","m","e",":"," ","F","a","s","t"," ","F","r","e","i","g","h","t">>,
    <<"L","o","a","d"," ","I","D",":"," ","L","-","1","0","0","1">>
>>

\* _extract_with_regex_pipeline(doc_id, text): result is the shipment data of
\* the response
CallExtractWithRegexPipeline ==
    /\ pc = "extract_start"
    /\ \E r \in {ExtractWithRegexPipeline(<<"d","o","c","-","1">>, text)} :
          /\ ret' = r
          /\ result' = IF r.exc = "" THEN r.value.shipment_data ELSE result
    /\ pc' = "pipeline_done"
    /\ UNCHANGED other_args
    /\ UNCHANGED <<text, chunk_size, chunk_overlap, collection, line, val,
                   label_patterns, multiline>>

NextNotes == CallExtractWithRegex \/ CallExtractWithRegexPipeline
SpecNotes == InitExtract(LinesTexts(NotesPhrases, MaxPhrases)) /\ [][NextNotes]_vars

\* The names of the fields the dict or the shipment data holds with a value
Present(fields) ==
    {f \in Range(all_fields) : f \in DOMAIN fields /\ fields[f] \notin {None, <<>>}}

\* The notes that report the fields found among the 11 and list the others,
\* in the order of all_fields, when there are others
NotesFor(found) ==
    LET absent == SelectSeq(all_fields, LAMBDA f : f \notin found)
        head == <<<<"E","x","t","r","a","c","t","i","o","n"," ","m","e","t","h","o","d",":"," ","r","e","g","e","x","-","b","a","s","e","d"," ","(","L","L","M"," ","u","n","a","v","a","i","l","a","b","l","e",")">>,
                  <<"F","i","e","l","d","s"," ","f","o","u","n","d",":"," ">> \o NatDigits(Cardinality(found)) \o <<"/","1","1">>>>
    IN IF absent = <<>> THEN head
       ELSE Append(head, <<"M","i","s","s","i","n","g"," ","f","i","e","l","d","s",":"," ">>
                            \o Join([k \in DOMAIN absent |-> FieldName(absent[k])], <<","," ">>))

\* C17: found and missing partition the 11 field names, found being the
\* fields present with a value that is not empty; the notes report
\* |found|/11 and list the missing names only when some are missing; the
\* confidence_score of _extract_with_regex_pipeline is |found| / 11 rounded
\* to 4 decimals (here in ten-thousandths).
C17_NotesAndConfidence ==
    /\ (pc = "extract_done") =>
          /\ ret.exc = ""
          /\ Range(FoundFields(result)) = Present(result)
          /\ Range(MissingFields(result)) = Range(all_fields) \ Present(result)
          /\ Len(FoundFields(result)) + Len(MissingFields(result)) = 11
          /\ ret.value.notes = NotesFor(Present(result))
          /\ Len(ret.value.notes) = IF Cardinality(Present(result)) = 11 THEN 2 ELSE 3
    /\ (pc = "pipeline_done") =>
          /\ ret.exc = ""
          /\ DOMAIN result = Range(all_fields)
          /\ ret.value.extraction_notes = NotesFor(Present(result))
          /\ LET score == ret.value.confidence_score
                 found == Cardinality(Present(result))
             IN /\ 2 * (11 * score - 10000 * found) <= 11
                /\ 2 * (10000 * found - 11 * score) <= 11
          /\ text = <<"S","h","i","p","p","e","r",":"," ","A","c","m","e"," ","C","o","r","p","\n","R","a","t","e",":"," ","$","1",",","5","0","0",".","0","0">>
                => /\ ret.value.confidence_score = 2727
                   /\ ret.value.extraction_notes[2] = <<"F","i","e","l","d","s"," ","f","o","u","n","d",":"," ","3","/","1","1">>
          /\ text = <<"n","o","t","h","i","n","g"," ","t","o"," ","f","i","n","d">> => ret.value.confidence_score = 0

\* C17 witness: a response with the 11 fields found, whose notes list no
\* missing field
C17_Witness ==
    /\ pc = "pipeline_done" /\ ret.exc = ""
    /\ Cardinality(Present(result)) = 11
    /\ ret.value.confidence_score = 10000
    /\ Len(ret.value.extraction_notes) = 2

(***************************************************************************)
(* The shipper                                                             *)
(***************************************************************************)
ShipperPhrases == <<
    <<"S","h","i","p","p","e","r",":"," ","A","B","C"," ","C","o","r","p">>,
    <<"S","h","i","p","p","e","r",":"," ">> \o Concat(Repeat(<<"-"," ">>, 75)) \o <<"A","C","M","E"," ","C","o","r","p">>,
    <<"S","h","i","p","p","e","r",":"," "," "," ">> \o Concat(Repeat(<<"A","c","m","e"," ">>, 24)) \o <<" "," ">>,
    <<"S","h","i","p","p","e","r"," ","I","n","f","o","r","m","a","t","i","o","n","\n","O","t","h","e","r"," ","F","r","e","i","g","h","t"," ","C","o">>,
    <<"P","i","c","k","u","p","\n","T","h","i","r","d"," ","P","a","r","t","y"," ","L","i","n","e","s">>,
    <<"S","h","i","p","p","e","r"," ","C","o","n","s","i","g","n","e","e","\n","1",".","A","A","A"," ",",">>,
    <<"S","h","i","p","p","e","r",":"," ","N","/","A">>,
    <<"S","h","i","p"," ","F","r","o","m",":"," ","B","e","t","a"," ","I","n","c">>,
    <<"L","o","a","d"," ","4","2">>
>>

SpecShipper == InitExtract(LinesTexts(ShipperPhrases, MaxPhrases))
                  /\ [][CallExtractWithRegex]_vars

\* The position (from 0) where line i of the lines starts in their text
LineStart(lines, i) == Len(Join(SubSeq(lines, 1, i - 1), <<"\n">>)) + (IF i > 1 THEN 1 ELSE 0)

\* Line i of the text is "Shipper: V" and no shipper label stands before it
FirstShipperLabel(i) ==
    LET lines == SplitOn(text, "\n")
    IN /\ i \in DOMAIN lines
       /\ StartsWith(lines[i], <<"S","h","i","p","p","e","r",":"," ">>)
       /\ \A k \in DOMAIN shipper_patterns :
             LET match == ReSearch(shipper_patterns[k], text, IgnoreCase)
             IN match.found => match.start >= LineStart(lines, i)

\* V of the line "Shipper: V", trimmed
ShipperValue(i) == Strip(SubSeq(SplitOn(text, "\n")[i], 10, Len(SplitOn(text, "\n")[i])))

\* C18 as claimed: when the first shipper label of the text is a line
\* "Shipper: V" with V not junk, the shipper is V trimmed, cut at 100
\* characters.
C18_AsClaimed ==
    (pc = "extract_done") =>
        \A i \in 1..(MaxPhrases * 2) :
            (FirstShipperLabel(i) /\ ~IsJunkValue(ShipperValue(i)))
                => /\ "shipper" \in DOMAIN result
                   /\ result["shipper"] = Slice(ShipperValue(i), 0, 100)

\* C18, amended: when the first shipper label of the text is a line
\* "Shipper: V" with V not junk, and the first 150 characters of V trimmed
\* are not junk either, the shipper is V trimmed, cut at 100 characters; when
\* those 150 characters are junk the shipper is absent. The label takes
\* priority: the section header, the Pickup header and the "Shipper
\* Consignee" strategies give the shipper only when no label pattern yields a
\* value.
C18_ShipperLabelFirst ==
    (pc = "extract_done") =>
        /\ ret.exc = ""
        /\ \A i \in 1..(MaxPhrases * 2) :
              (FirstShipperLabel(i) /\ ~IsJunkValue(ShipperValue(i)))
                  => IF IsJunkValue(Slice(ShipperValue(i), 0, LabelValueMaxLen))
                     THEN "shipper" \notin DOMAIN result
                     ELSE /\ "shipper" \in DOMAIN result
                          /\ result["shipper"] = Slice(ShipperValue(i), 0, 100)
        /\ text = <<"S","h","i","p","p","e","r",":"," ","A","B","C"," ","C","o","r","p">> => result["shipper"] = <<"A","B","C"," ","C","o","r","p">>
        /\ text = <<"S","h","i","p","p","e","r"," ","I","n","f","o","r","m","a","t","i","o","n","\n","O","t","h","e","r"," ","F","r","e","i","g","h","t"," ","C","o","\n","S","h","i","p","p","e","r",":"," ","A","B","C"," ","C","o","r","p">>
              => result["shipper"] = <<"A","B","C"," ","C","o","r","p">>
        /\ text = <<"P","i","c","k","u","p","\n","T","h","i","r","d"," ","P","a","r","t","y"," ","L","i","n","e","s","\n","S","h","i","p","p","e","r",":"," ","A","B","C"," ","C","o","r","p">>
              => result["shipper"] = <<"A","B","C"," ","C","o","r","p">>
        /\ text = <<"S","h","i","p","p","e","r"," ","C","o","n","s","i","g","n","e","e","\n","1",".","A","A","A"," ",",","\n","S","h","i","p","p","e","r",":"," ","A","B","C"," ","C","o","r","p">>
              => result["shipper"] = <<"A","B","C"," ","C","o","r","p">>
        /\ text = <<"S","h","i","p","p","e","r"," ","I","n","f","o","r","m","a","t","i","o","n","\n","O","t","h","e","r"," ","F","r","e","i","g","h","t"," ","C","o">>
              => result["shipper"] = <<"O","t","h","e","r"," ","F","r","e","i","g","h","t"," ","C","o">>
        /\ text = <<"P","i","c","k","u","p","\n","T","h","i","r","d"," ","P","a","r","t","y"," ","L","i","n","e","s">> => result["shipper"] = <<"T","h","i","r","d"," ","P","a","r","t","y"," ","L","i","n","e","s">>
        /\ text = <<"S","h","i","p","p","e","r"," ","C","o","n","s","i","g","n","e","e","\n","1",".","A","A","A"," ",",">> => result["shipper"] = <<"A","A","A">>
        /\ text = <<"S","h","i","p","p","e","r",":"," ","N","/","A","\n","S","h","i","p","p","e","r"," ","I","n","f","o","r","m","a","t","i","o","n","\n","O","t","h","e","r"," ","F","r","e","i","g","h","t"," ","C","o">>
              => result["shipper"] = <<"O","t","h","e","r"," ","F","r","e","i","g","h","t"," ","C","o">>

\* C18 witness: a "Shipper: V" line after a section header with a value under
\* it, V longer than 100 characters, and the shipper is V cut at 100
C18_Witness ==
    /\ pc = "extract_done"
    /\ StartsWith(text, <<"S","h","i","p","p","e","r"," ","I","n","f","o","r","m","a","t","i","o","n","\n","O","t","h","e","r"," ","F","r","e","i","g","h","t"," ","C","o","\n","S","h","i","p","p","e","r",":"," ">>)
    /\ FirstShipperLabel(3) /\ Len(ShipperValue(3)) > 100
    /\ ~IsJunkValue(ShipperValue(3))
    /\ result["shipper"] = Slice(ShipperValue(3), 0, 100)

(***************************************************************************)
(* Malformed numbers                                                       *)
(***************************************************************************)
MalformedPhrases == <<
    <<"T","o","t","a","l",":"," ",",">>,
    <<"w","e","i","g","h","t",":"," ",","," ","l","b","s">>,
    <<",",",",","," ","l","b","s"," ","a","n","d"," ","w","e","i","g","h","t"," ",",","."," ","k","g">>,
    <<"P","a","i","d"," ","$"," ",",",",",".","9","9">>,
    <<"R","a","t","e",":"," ","1",",","5","0","0"," ","U","S","D">>,
    <<"1",",","2","0","0"," ","p","o","u","n","d","s">>,
    <<"C","a","r","r","i","e","r"," ","N","a","m","e",":"," ","F","a","s","t"," ","F","r","e","i","g","h","t">>,
    <<"S","h","i","p","p","e","r",":">>,
    <<":"," ",":"," ","$"," ","-"," ","l","b","s">>
>>

SpecMalformed == InitExtract(LinesTexts(MalformedPhrases, MaxPhrases))
                    /\ [][CallExtractWithRegex]_vars

\* A pattern captured something float() rejects
MalformedRate == \E k \in DOMAIN rate_patterns :
                    RateCapture(k) # None /\ ParseFloat(RateCapture(k)).exc # ""
MalformedWeight ==
    \E k \in DOMAIN weight_patterns :
        /\ WeightCapture(k).found
        /\ ParseFloat(Remove(Strip(WeightCapture(k).num), ",")).exc # ""

\* C19: _extract_with_regex raises nothing; a field whose strategies all fail
\* is absent, and a rate or weight capture that is not a number (commas only)
\* is passed over: the next patterns are tried, so a later pattern that
\* qualifies gives the field, and the other fields are extracted all the
\* same.
C19_NeverRaises ==
    (pc = "extract_done") =>
        /\ ret.exc = ""
        /\ RateQualifying(RateCaptures) # {} => "rate" \in DOMAIN result
        /\ {k \in DOMAIN weight_patterns :
               WeightCapture(k).found /\ AtLeastFifty(WeightCapture(k).num)} # {}
              => "weight" \in DOMAIN result
        /\ text = <<"T","o","t","a","l",":"," ",",","\n","R","a","t","e",":"," ","1",",","5","0","0"," ","U","S","D">>
              => result["rate"] = <<"1","5","0","0">> /\ result["currency"] = <<"U","S","D">>
        /\ text = <<"w","e","i","g","h","t",":"," ",","," ","l","b","s","\n","1",",","2","0","0"," ","p","o","u","n","d","s">> => result["weight"] = <<"1",",","2","0","0"," ","p","o","u","n","d","s">>
        /\ text = <<"w","e","i","g","h","t",":"," ",","," ","l","b","s","\n","C","a","r","r","i","e","r"," ","N","a","m","e",":"," ","F","a","s","t"," ","F","r","e","i","g","h","t">>
              => /\ "weight" \notin DOMAIN result
                 /\ result["carrier_name"] = <<"F","a","s","t"," ","F","r","e","i","g","h","t">>
        /\ text = <<"T","o","t","a","l",":"," ",",","\n","w","e","i","g","h","t",":"," ",","," ","l","b","s">> => DOMAIN result = {}
        /\ text = <<"S","h","i","p","p","e","r",":">> => DOMAIN result = {}
        /\ text = <<>> => DOMAIN result = {}

\* C19 witness: a rate and a weight capture that are not numbers, and the
\* call returned
C19_Witness ==
    /\ pc = "extract_done" /\ ret.exc = ""
    /\ MalformedRate /\ MalformedWeight

(***************************************************************************)
(* Several calls of _extract_with_regex, one after the other               *)
(***************************************************************************)
\* At most MaxCalls calls are made
MaxCalls == 3
CallTexts == {
    <<"S","h","i","p","p","e","r",":"," ","A","c","m","e"," ","C","o","r","p">>,
    <<"L","o","a","d"," ","I","D",":"," ","L","-","1","0","0","1","\n","S","h","i","p","p","e","r",":"," ","B","e","t","a"," ","L","L","C","\n","M","o","d","e",":"," ","F","T","L","\n","R","a","t","e",":"," ","$","1",",","5","0","0",".","0","0","\n","W","e","i","g","h","t",":"," ","4","2",",","5","0","0"," ","l","b","s">>,
    <<"w","e","i","g","h","t",":"," ",","," ","l","b","s","\n","1",",","2","0","0"," ","p","o","u","n","d","s">>,
    <<"n","o","t","h","i","n","g"," ","t","o"," ","f","i","n","d">>,
    <<"R","a","t","e",":"," ","9","0","0"," ","E","U","R">>
}

\* The caller passes on to another text; the dict of the last call stays
\* where it was
NewCall ==
    /\ pc = "extract_done"
    /\ Len(collection) < MaxCalls
    /\ text' \in CallTexts
    /\ pc' = "extract_start"
    /\ UNCHANGED other_args
    /\ UNCHANGED <<chunk_size, chunk_overlap, collection, line, val, label_patterns,
                   multiline, ret, result>>

NextCalls == CallExtractWithRegex \/ NewCall
SpecCalls == InitExtract(CallTexts) /\ [][NextCalls]_vars

NoCoreCall ==
    /\ text = <<>> /\ collection = <<>> /\ line = <<>> /\ val = None
    /\ chunk_size = 0 /\ chunk_overlap = 0 /\ label_patterns = "" /\ multiline = FALSE
    /\ result = None
    /\ NoLookaheadCall /\ NoStructuredCall

\* The scores: 1 - cosine distance lies in -1 .. 1, and the function is also
\* called on scores outside it and on sequences in any order
MaxScores == 3
ScoreValues == {-5000, 0, 2000, 4000, 9000, One, 15000}
ScoreSeqs == UNION {[1..m -> ScoreValues] : m \in 0..MaxScores}

InitRetrieval ==
    /\ pc = "retrieval_start"
    /\ NoCoreCall
    /\ similarity_scores \in ScoreSeqs
    /\ answer = None /\ confidence = 0 /\ threshold = 0
    /\ source_texts = <<>> /\ chunks = <<>> /\ ret = None

\* compute_retrieval_confidence(similarity_scores)
CallComputeRetrievalConfidence ==
    /\ pc = "retrieval_start"
    /\ ret' = Return(ComputeRetrievalConfidence(similarity_scores))
    /\ pc' = "retrieval_done"
    /\ UNCHANGED other_args
    /\ UNCHANGED <<text, chunk_size, chunk_overlap, collection, line, val,
                   label_patterns, multiline, result>>

SpecRetrieval == InitRetrieval /\ [][CallComputeRetrievalConfidence]_vars

\* The best and the second best score of a sequence
MaxScore(scores) == CHOOSE x \in Range(scores) : \A y \in Range(scores) : y <= x
SecondScore(scores) ==
    LET i == CHOOSE k \in DOMAIN scores : scores[k] = MaxScore(scores)
    IN MaxScore([k \in 1..(Len(scores) - 1) |-> scores[IF k < i THEN k ELSE k + 1]])
\* 0.5*top1 + 0.2*gap_signal + 0.3*mean clamped to [0,1] (and rounded to 4
\* decimals), top1 and top2 the two best scores
WeightedOfBest(scores) ==
    LET n == Len(scores)
        gap_signal == IF n > 1 THEN Min(One, 5 * (MaxScore(scores) - SecondScore(scores)))
                      ELSE 5000
        weighted == 5 * MaxScore(scores) * n + 2 * gap_signal * n + 3 * Sum(scores)
    IN Round(Clamp01(weighted, 10 * n), 10 * n)
Descending(scores) == \A i \in 1..(Len(scores) - 1) : scores[i] >= scores[i + 1]

\* C21 as stated: for every non-empty sequence the result is the weighted sum
\* of the best score, the gap signal and the mean, clamped to [0,1]
C21_AsClaimed ==
    (pc = "retrieval_done" /\ similarity_scores # <<>>)
        => ret.value = WeightedOfBest(similarity_scores)

\* C21: for every non-empty sequence of scores within [0,1] in descending
\* order, compute_retrieval_confidence returns 0.5*top1 + 0.2*gap_signal +
\* 0.3*mean (rounded to 4 decimals), top1 the best score, mean the mean of all,
\* gap_signal min(1, 5*(top1 - top2)) with a second score and 0.5 without
C21_RetrievalConfidence ==
    (/\ pc = "retrieval_done" /\ similarity_scores # <<>>
     /\ Descending(similarity_scores)
     /\ \A i \in DOMAIN similarity_scores : similarity_scores[i] \in 0..One)
        => ret = Return(WeightedOfBest(similarity_scores))

\* A dominant first match of two has been scored
C21_Witness ==
    /\ pc = "retrieval_done"
    /\ similarity_scores = <<One, 9000>>
    /\ ret = Return(8850)

(***************************************************************************)
(* The answer coverage: compute_answer_coverage called on an answer and    *)
(* the texts of the retrieved chunks                                       *)
(***************************************************************************)
MaxSources == 2
Answers == {
    <<>>,
    <<"o","k">>,
    <<"t","h","i","s"," ","t","h","a","t"," ","w","i","t","h">>,
    <<"a","b","c","d","1"," ","x","_","r","a","y"," ","2","0","2","4">>,
    <<"C","a","r","r","i","e","r">>,
    <<"T","h","e"," ","c","a","r","r","i","e","r"," ","i","s"," ","A","c","m","e"," ","F","r","e","i","g","h","t">>,
    <<"R","a","t","e"," ","r","a","t","e"," ","w","e","i","g","h","t">>,
    <<"u","s","u","a","l","l","y"," ","w","i","t","h"," ","f","r","e","i","g","h","t">>,
    <<"c","a","r"," ","c","a","r","r","i","e","r","s">>,
    <<"B","a","s","e","d"," ","o","n"," ","t","h","e"," ","d","o","c","u","m","e","n","t",","," ","t","h","e"," ","w","e","i","g","h","t">>
}
SourceTexts == <<
    <<>>,
    <<"T","h","e"," ","C","A","R","R","I","E","R"," ","i","s"," ","A","c","m","e">>,
    <<"w","e","i","g","h","t","s"," ","a","n","d"," ","r","a","t","e","s">>,
    <<"F","r","e","i","g","h","t">>
>>
SourceLists == UNION {[1..m -> Range(SourceTexts)] : m \in 0..MaxSources}

InitCoverage ==
    /\ pc = "coverage_start"
    /\ NoCoreCall
    /\ answer \in Answers
    /\ source_texts \in SourceLists
    /\ similarity_scores = <<>> /\ confidence = 0 /\ threshold = 0
    /\ chunks = <<>> /\ ret = None

\* compute_answer_coverage(answer, source_texts)
CallComputeAnswerCoverage ==
    /\ pc = "coverage_start"
    /\ ret' = Return(ComputeAnswerCoverage(answer, source_texts))
    /\ pc' = "coverage_done"
    /\ UNCHANGED other_args
    /\ UNCHANGED <<text, chunk_size, chunk_overlap, collection, line, val,
                   label_patterns, multiline, result>>

SpecCoverage == InitCoverage /\ [][CallComputeAnswerCoverage]_vars

\* The tokens of s, in order: its maximal runs of letters, digits and underscores
TokensOf(s) ==
    LET starts == {i \in DOMAIN s : s[i] \in WordCh /\ (i = 1 \/ s[i - 1] \notin WordCh)}
        Start(k) == CHOOSE i \in starts : Cardinality({j \in starts : j < i}) = k - 1
        End(i) == CHOOSE j \in i..Len(s) :
                      /\ \A m \in i..j : s[m] \in WordCh
                      /\ j = Len(s) \/ s[j + 1] \notin WordCh
    IN [k \in 1..Cardinality(starts) |-> SubSeq(s, Start(k), End(Start(k)))]
\* The alphabetic tokens of 4 or more letters of an answer, lower-cased
LongWords(ans) ==
    SelectSeq(TokensOf(StrLower(ans)),
              LAMBDA w : Len(w) >= 4 /\ \A i \in DOMAIN w : w[i] \in Lower)
\* Its significant words: those outside the stopword list
SignificantWords(ans) == SelectSeq(LongWords(ans), LAMBDA w : w \notin Stopwords)
\* The fraction (in ten-thousandths) of the words that occur in the lower-cased
\* sources joined by blanks, each occurrence of a word in the answer counting
CoveredFraction(words, sources) ==
    Round(One * Cardinality({i \in DOMAIN words :
                                Contains(StrLower(Join(sources, <<" ">>)), words[i])}),
          Len(words))

\* C22 as stated: 0.5 for every answer without significant words, the empty
\* one included, and every list of sources; the covered fraction otherwise
C22_AsClaimed ==
    pc = "coverage_done" =>
        ret.value = IF SignificantWords(answer) = <<>> THEN 5000
                    ELSE CoveredFraction(SignificantWords(answer), source_texts)

\* C22: compute_answer_coverage returns 0 when the answer or the list of
\* sources is empty; otherwise 0.5 when the answer has no significant word,
\* and otherwise the fraction of its significant words that occur in the
\* lower-cased sources
C22_AnswerCoverage ==
    pc = "coverage_done" =>
        ret = Return(IF answer = <<>> \/ source_texts = <<>> THEN 0
                     ELSE IF SignificantWords(answer) = <<>> THEN 5000
                     ELSE CoveredFraction(SignificantWords(answer), source_texts))

\* An answer made of stopwords only has been scored against a source
C22_Witness ==
    /\ pc = "coverage_done"
    /\ answer = <<"t","h","i","s"," ","t","h","a","t"," ","w","i","t","h">>
    /\ source_texts = <<<<"T","h","e"," ","C","A","R","R","I","E","R"," ","i","s"," ","A","c","m","e">>>>
    /\ ret = Return(5000)

(***************************************************************************)
(* The chunk agreement: compute_chunk_agreement called on the retrieved    *)
(* chunks and an answer                                                    *)
(***************************************************************************)
MaxChunks == 2
\* A retrieved chunk, of which the function reads the text only
ChunkLists == UNION {[1..m -> {[text |-> t] : t \in Range(SourceTexts)}] : m \in 0..MaxChunks}

InitAgreement ==
    /\ pc = "agreement_start"
    /\ NoCoreCall
    /\ answer \in Answers
    /\ chunks \in ChunkLists
    /\ similarity_scores = <<>> /\ confidence = 0 /\ threshold = 0
    /\ source_texts = <<>> /\ ret = None

\* compute_chunk_agreement(chunks, answer)
CallComputeChunkAgreement ==
    /\ pc = "agreement_start"
    /\ ret' = Return(ComputeChunkAgreement(chunks, answer))
    /\ pc' = "agreement_done"
    /\ UNCHANGED other_args
    /\ UNCHANGED <<text, chunk_size, chunk_overlap, collection, line, val,
                   label_patterns, multiline, result>>

SpecAgreement == InitAgreement /\ [][CallComputeChunkAgreement]_vars

\* The mean (in ten-thousandths), over the words, of the fraction of the chunks
\* whose lower-cased text contains the word
MeanChunkFraction(words, cs) ==
    Round(One * Cardinality({<<w, i>> \in words \X DOMAIN cs : Contains(StrLower(cs[i].text), w)}),
          Len(cs) * Cardinality(words))

\* C23: with chunks and a non-empty answer, compute_chunk_agreement averages
\* over the distinct significant words of the answer (no stopwords) the
\* fraction of chunks containing the word, and returns 0.5 when the answer has
\* no significant words, as one made only of stopwords
C23_AsClaimed ==
    (pc = "agreement_done" /\ answer # <<>> /\ chunks # <<>>) =>
        ret.value = IF SignificantWords(answer) = <<>> THEN 5000
                    ELSE MeanChunkFraction(Range(SignificantWords(answer)), chunks)

(***************************************************************************)
(* The composite confidence: compute_composite_confidence called on        *)
(* scores, an answer, source texts and chunks                              *)
(***************************************************************************)
MaxCompositeScores == 2
CompositeScoreSeqs == UNION {[1..m -> ScoreValues] : m \in 0..MaxCompositeScores}
CompositeAnswers == {
    <<>>,
    <<"t","h","i","s"," ","t","h","a","t"," ","w","i","t","h">>,
    <<"T","h","e"," ","c","a","r","r","i","e","r"," ","i","s"," ","A","c","m","e"," ","F","r","e","i","g","h","t">>,
    <<"u","s","u","a","l","l","y"," ","w","i","t","h"," ","f","r","e","i","g","h","t">>
}
CompositeSources == {
    <<>>,
    <<<<>>>>,
    <<<<"T","h","e"," ","C","A","R","R","I","E","R"," ","i","s"," ","A","c","m","e">>>>,
    <<<<"w","e","i","g","h","t","s"," ","a","n","d"," ","r","a","t","e","s">>, <<"F","r","e","i","g","h","t">>>>
}
CompositeChunks == {[i \in DOMAIN s |-> [text |-> s[i]]] : s \in CompositeSources}

InitComposite ==
    /\ pc = "composite_start"
    /\ NoCoreCall
    /\ similarity_scores \in CompositeScoreSeqs
    /\ answer \in CompositeAnswers
    /\ source_texts \in CompositeSources
    /\ chunks \in CompositeChunks
    /\ confidence = 0 /\ threshold = 0 /\ ret = None

\* compute_composite_confidence(similarity_scores, answer, source_texts, chunks)
CallComputeCompositeConfidence ==
    /\ pc = "composite_start"
    /\ ret' = Return(ComputeCompositeConfidence(similarity_scores, answer, source_texts, chunks))
    /\ pc' = "composite_done"
    /\ UNCHANGED other_args
    /\ UNCHANGED <<text, chunk_size, chunk_overlap, collection, line, val,
                   label_patterns, multiline, result>>

SpecComposite == InitComposite /\ [][CallComputeCompositeConfidence]_vars

\* C24: compute_composite_confidence returns a value in [0,1] for every
\* sequence of scores (empty, unsorted, negative or above 1), answer, list of
\* sources and list of chunks, and the three scores it combines lie in [0,1]
C24_CompositeInRange ==
    pc = "composite_done" =>
        /\ ret.exc = "" /\ ret.value \in 0..One
        /\ ComputeRetrievalConfidence(similarity_scores) \in 0..One
        /\ ComputeAnswerCoverage(answer, source_texts) \in 0..One
        /\ ComputeChunkAgreement(chunks, answer) \in 0..One

\* Scores that are unsorted, negative and above 1 have been combined with an
\* answer, a source and chunks
C24_Witness ==
    /\ pc = "composite_done"
    /\ similarity_scores = <<-5000, 15000>>
    /\ answer = <<"u","s","u","a","l","l","y"," ","w","i","t","h"," ","f","r","e","i","g","h","t">>
    /\ source_texts = <<<<"w","e","i","g","h","t","s"," ","a","n","d"," ","r","a","t","e","s">>, <<"F","r","e","i","g","h","t">>>>
    /\ chunks = <<[text |-> <<"T","h","e"," ","C","A","R","R","I","E","R"," ","i","s"," ","A","c","m","e">>]>>
    /\ ret = Return(1750)

(***************************************************************************)
(* The guardrails: check_guardrails called on an answer, its confidence,   *)
(* the scores of the retrieved chunks and a threshold                      *)
(***************************************************************************)
MaxGuardScores == 2
GuardAnswers == {
    <<>>,
    <<"o","k">>,
    <<"u","s","u","a","l","l","y">>,
    <<"C","o","m","m","o","n","l","y"," ","5">>,
    <<"1","2","3","4","5","6","7","8","9">>,
    <<" ","1","2","3","4","5","6","7","8","9"," ","\n">>,
    <<"1","2","3","4","5","6","7","8","9","0">>,
    <<" "," ","T","h","e"," ","r","a","t","e"," ","i","s"," ","$","1","5","0","0","."," "," ">>,
    <<"A","s"," ","a","n"," ","A","I",","," ","I"," ","c","a","n","n","o","t"," ","d","e","t","e","r","m","i","n","e"," ","t","h","i","s",".">>,
    <<"T","y","p","i","c","a","l","l","y"," ","i","n"," ","l","o","g","i","s","t","i","c","s"," ","t","h","e"," ","c","a","r","r","i","e","r"," ","i","s"," ","U","S","U","A","L","L","Y"," ","p","a","i","d",".">>
}
GuardScoreValues == {-5000, 2499, LowSimilarity, 9000}
GuardScoreSeqs == UNION {[1..m -> GuardScoreValues] : m \in 0..MaxGuardScores}
Confidences == {0, 2000, 4400, 4500, 9000}
\* 0.45 is the default
Thresholds == {4500, 2000}

InitGuardrails ==
    /\ pc = "guardrails_start"
    /\ NoCoreCall
    /\ answer \in GuardAnswers
    /\ confidence \in Confidences
    /\ similarity_scores \in GuardScoreSeqs
    /\ threshold \in Thresholds
    /\ source_texts = <<>> /\ chunks = <<>> /\ ret = None

\* check_guardrails(answer, confidence, similarity_scores, threshold)
CallCheckGuardrails ==
    /\ pc = "guardrails_start"
    /\ ret' = Return(CheckGuardrails(answer, confidence, similarity_scores, threshold))
    /\ pc' = "guardrails_done"
    /\ UNCHANGED other_args
    /\ UNCHANGED <<text, chunk_size, chunk_overlap, collection, line, val,
                   label_patterns, multiline, result>>

SpecGuardrails == InitGuardrails /\ [][CallCheckGuardrails]_vars

\* The rules as the specification numbers them; the best score is the first of
\* the ordered scores
Rule1Applies == confidence < threshold
Rule2Applies == similarity_scores # <<>> /\ similarity_scores[1] < 2500
Rule3Applies == \E k \in DOMAIN HALLUCINATION_PHRASES :
                    Contains(StrLower(answer), HALLUCINATION_PHRASES[k])
Rule4Applies == Len(Strip(answer)) < 10
LowestRule ==
    IF Rule1Applies THEN 1 ELSE IF Rule2Applies THEN 2
    ELSE IF Rule3Applies THEN 3 ELSE IF Rule4Applies THEN 4 ELSE 0
\* The rule a decision comes from, told by its message; 0 for a decision that
\* is not triggered
RuleOf(decision) ==
    IF ~decision[1] THEN 0
    ELSE IF StartsWith(decision[2], <<"C","o","n","f","i","d","e","n","c","e"," ","s","c","o","r","e"," ","(">>) THEN 1
    ELSE IF StartsWith(decision[2], <<"T","o","p"," ","r","e","t","r","i","e","v","a","l"," ","s","i","m","i","l","a","r","i","t","y"," ","(">>) THEN 2
    ELSE IF StartsWith(decision[2], <<"P","o","t","e","n","t","i","a","l"," ","h","a","l","l","u","c","i","n","a","t","i","o","n"," ","d","e","t","e","c","t","e","d">>) THEN 3
    ELSE IF StartsWith(decision[2], <<"A","n","s","w","e","r"," ","i","s"," ","t","o","o"," ","s","h","o","r","t"," ","o","r"," ","e","m","p","t","y">>) THEN 4
    ELSE 5

C26_HallucinationKeepsAnswer ==
    (/\ pc = "guardrails_done"
     /\ confidence >= threshold
     /\ similarity_scores = <<>> \/ similarity_scores[1] >= 2500
     /\ Rule3Applies) =>
        /\ ret.value[1] = TRUE
        /\ RuleOf(ret.value) = 3
        /\ ret.value[3] = <<WarningSign, VariationSelector>> \o
              <<" ","T","h","e"," ","a","n","s","w","e","r"," ","m","a","y"," ","n","o","t"," ","b","e"," ","f","u","l","l","y"," ","g","r","o","u","n","d","e","d"," ","i","n"," ","t","h","e"," ","d","o","c","u","m","e","n","t","."," ","P","l","e","a","s","e"," ","v","e","r","i","f","y",":"," ">> \o answer

\* Rule 3 has kept an answer of 7 characters
C26_Witness ==
    /\ pc = "guardrails_done"
    /\ confidence = 4500 /\ threshold = 4500
    /\ similarity_scores = <<LowSimilarity>>
    /\ answer = <<"u","s","u","a","l","l","y">>
    /\ ret.value[3] = <<WarningSign, VariationSelector>> \o
           <<" ","T","h","e"," ","a","n","s","w","e","r"," ","m","a","y"," ","n","o","t"," ","b","e"," ","f","u","l","l","y"," ","g","r","o","u","n","d","e","d"," ","i","n"," ","t","h","e"," ","d","o","c","u","m","e","n","t","."," ","P","l","e","a","s","e"," ","v","e","r","i","f","y",":"," ","u","s","u","a","l","l","y">>

\* C27: check_guardrails never raises; its decision is not triggered exactly
\* when no rule applies, then the message is absent and the final answer is
\* the answer unchanged, and every triggered decision carries a message
C27_TotalDecision ==
    pc = "guardrails_done" =>
        /\ ret.exc = ""
        /\ Len(ret.value) = 3 /\ ret.value[1] \in BOOLEAN
        /\ ret.value[1] = FALSE <=> LowestRule = 0
        /\ ret.value[1] = FALSE => (ret.value[2] = None /\ ret.value[3] = answer)
        /\ ret.value[1] = TRUE => (ret.value[2] # None /\ ret.value[2] # <<>>)

\* An answer with blanks around it has passed, with no scores given
C27_Witness ==
    /\ pc = "guardrails_done"
    /\ similarity_scores = <<>>
    /\ answer = <<" "," ","T","h","e"," ","r","a","t","e"," ","i","s"," ","$","1","5","0","0","."," "," ">>
    /\ ret = Return(<<FALSE, None, <<" "," ","T","h","e"," ","r","a","t","e"," ","i","s"," ","$","1","5","0","0","."," "," ">>>>)

(***************************************************************************)
(* The lookahead: _find_next_value_line called on the lines of a document, *)
(* the index of a header line and a number of lines to look at             *)
(***************************************************************************)
MaxLookLines == 3
LookLines == {
    <<>>,
    <<" "," ">>,
    <<"-","-","-","-","-">>,
    <<"=","=","=">>,
    <<"N","/","A">>,
    <<"A","d","d","r","e","s","s",":"," ","1","2"," ","M","a","i","n"," ","S","t">>,
    <<"p","h","o","n","e"," ",":"," ","5","5","5","-","0","1","0","0">>,
    <<"N","a","m","e",":"," ","A","c","m","e"," ","C","o","r","p">>,
    <<"N","a","m","e",":"," ","N","/","A">>,
    <<"c","o","m","p","a","n","y"," ",":"," "," ","-","-","-">>,
    <<" "," ","B","e","t","a"," ","L","L","C"," "," ">>
}
\* A header line and at most MaxLookLines lines under it
LookDocs == UNION {{<<<<"S","h","i","p","p","e","r">>>> \o ls : ls \in [1..m -> LookLines]} : m \in 0..MaxLookLines}
\* The callers pass 3 and 5
SkipCounts == {1, 3, 5}

InitLookahead ==
    /\ pc = "lookahead_start"
    /\ NoGuardrailCall /\ NoStructuredCall
    /\ doc_lines \in LookDocs
    /\ start_index \in 0..1
    /\ max_skip \in SkipCounts
    /\ text = <<>> /\ collection = <<>> /\ line = <<>> /\ val = None
    /\ chunk_size = 0 /\ chunk_overlap = 0 /\ label_patterns = "" /\ multiline = FALSE
    /\ result = None /\ ret = None

\* _find_next_value_line(lines, start_idx, skip_count)
CallFindNextValueLine ==
    /\ pc = "lookahead_start"
    /\ ret' = Return(FindNextValueLine(doc_lines, start_index, max_skip))
    /\ pc' = "lookahead_done"
    /\ UNCHANGED other_args
    /\ UNCHANGED <<text, chunk_size, chunk_overlap, collection, line, val,
                   label_patterns, multiline, result>>

SpecLookahead == InitLookahead /\ [][CallFindNextValueLine]_vars

\* ^(?:name|company)\s*:\s*(.+) and ^(?:address|contact|phone|email|fax|city|state|zip)\s*:
NameLine == ReSeq(<<ReBol, ReWords(<<<<"n","a","m","e">>, <<"c","o","m","p","a","n","y">>>>), ReStar(ReWs), ReSet({":"}),
                    ReStar(ReWs), ReGrp(1, RePlus(ReAny))>>)
SubLabelLine == ReSeq(<<ReBol, ReWords(<<<<"a","d","d","r","e","s","s">>, <<"c","o","n","t","a","c","t">>, <<"p","h","o","n","e">>, <<"e","m","a","i","l">>,
                                         <<"f","a","x">>, <<"c","i","t","y">>, <<"s","t","a","t","e">>, <<"z","i","p">>>>),
                        ReStar(ReWs), ReSet({":"})>>)
\* A blank line or a line of dashes or equal signs
BlankOrSeparator(s) == Strip(s) = <<>> \/ StartsWith(Strip(s), <<"-","-","-">>) \/ StartsWith(Strip(s), <<"=","=","=">>)
\* A line the lookahead passes over
PassedOver(s) ==
    \/ BlankOrSeparator(s)
    \/ IsJunkValue(Strip(s))
    \/ ReMatch(SubLabelLine, Strip(s), IgnoreCase).found
\* The lines (numbered from 0) of the window under the header that are not passed over
Remaining ==
    {j \in (start_index + 1)..Min(start_index + max_skip, Len(doc_lines) - 1) :
        ~PassedOver(doc_lines[j + 1])}
\* The first of them, trimmed, or of a Name: or Company: line the value after
\* the colon, trimmed; None when there is none
FirstRemaining ==
    IF Remaining = {} THEN None
    ELSE LET first == Strip(doc_lines[(CHOOSE j \in Remaining : \A k \in Remaining : j <= k) + 1])
             m == ReMatch(NameLine, first, IgnoreCase)
         IN IF m.found THEN Strip(Group(first, m, 1)) ELSE first

\* C28 as stated: the first remaining line of the window or the value of a
\* Name: or Company: line, absent when there is none, and the value returned
\* is never blank, a separator or a junk value
C28_AsClaimed ==
    pc = "lookahead_done" =>
        /\ ret.value = FirstRemaining
        /\ ret.value # None => (~BlankOrSeparator(ret.value) /\ ~IsJunkValue(ret.value))

\* C28: _find_next_value_line looks at lines start_idx+1 .. start_idx+skip_count
\* only, passes over blank, separator, junk and sub-label lines and returns
\* the first remaining line, or the value after the colon of a Name: or
\* Company: line that comes first, absent when no line remains; a line it
\* returns whole is never blank, a separator or junk
C28_FirstRemainingLine ==
    pc = "lookahead_done" =>
        /\ ret = Return(FirstRemaining)
        /\ (ret.value # None /\ \E j \in Remaining : ret.value = Strip(doc_lines[j + 1])) =>
              (~BlankOrSeparator(ret.value) /\ ~IsJunkValue(ret.value))

\* The name under a separator and an address line has been found
C28_Witness ==
    /\ pc = "lookahead_done"
    /\ doc_lines = <<<<"S","h","i","p","p","e","r">>, <<"-","-","-","-","-">>, <<"A","d","d","r","e","s","s",":"," ","1","2"," ","M","a","i","n"," ","S","t">>, <<"N","a","m","e",":"," ","A","c","m","e"," ","C","o","r","p">>>>
    /\ start_index = 0 /\ max_skip = 3
    /\ ret = Return(<<"A","c","m","e"," ","C","o","r","p">>)

(***************************************************************************)
(* The fallback: extract_structured_data called on a stored document, with *)
(* or without an API key and with an OpenAI library that works or fails    *)
(***************************************************************************)
RawTexts == {
    <<"S","h","i","p","p","e","r",":"," ","A","c","m","e"," ","C","o","r","p">>,
    <<"n","o","t","h","i","n","g"," ","t","o"," ","f","i","n","d">>,
    <<"S","h","i","p","p","e","r",":"," ","A","c","m","e"," ","C","o","r","p","\n","C","o","n","s","i","g","n","e","e",":"," ","B","e","t","a"," ","L","L","C","\n","R","a","t","e",":"," ","$","1",",","5","0","0",".","0","0">>,
    <<"L","o","a","d"," ","I","D",":"," ","L","-","1","0","0","1","\n","S","h","i","p","p","e","r",":"," ","B","e","t","a"," ","L","L","C","\n","M","o","d","e",":"," ","F","T","L","\n","W","e","i","g","h","t",":"," ","4","2",",","5","0","0"," ","l","b","s">>
}
ApiKeys == {<<>>, PlaceholderKey, <<"s","k","-","t","e","s","t">>}
\* OpenAI(api_key=...) returns a client or raises
ClientOutcomes == {Return(OpenAIClient), Raise("OpenAIError")}
\* The call of the model fails, its answer holds no JSON, the JSON found does
\* not parse or is no object, a value is no string, or a dict comes back
CompletionOutcomes == {
    Raise("APIConnectionError"), Raise("RateLimitError"), Raise("ValueError"),
    Raise("JSONDecodeError"), Raise("AttributeError"), Raise("ValidationError"),
    Return(EmptyDict),
    Return(DictSet(DictSet(EmptyDict, "shipper", <<"A","c","m","e"," ","C","o","r","p">>), "rate", <<"1","5","0","0">>))
}

InitStructured ==
    /\ pc = "structured_start"
    /\ NoGuardrailCall /\ NoLookaheadCall
    /\ text \in RawTexts
    /\ api_key \in ApiKeys
    /\ openai \in [client : ClientOutcomes, completion : CompletionOutcomes]
    /\ llm_text = None
    /\ collection = <<>> /\ line = <<>> /\ val = None
    /\ chunk_size = 0 /\ chunk_overlap = 0 /\ label_patterns = "" /\ multiline = FALSE
    /\ result = None /\ ret = None

\* extract_structured_data(doc_id): result is the shipment data of the regex
\* pipeline, where it ran
CallExtractStructuredData ==
    /\ pc = "structured_start"
    /\ ret' = ExtractStructuredData(<<"d","o","c","-","1">>, text, api_key, openai)
    /\ llm_text' = IF GetOpenaiClient(api_key, openai) # None THEN Truncated(text) ELSE None
    /\ result' = IF LlmReturns(api_key, openai, <<"d","o","c","-","1">>) THEN None
                 ELSE ShipmentOf(ExtractWithRegex(text, EmptyDict).value.result)
    /\ pc' = "structured_done"
    /\ UNCHANGED <<guardrail_args, lookahead_args, api_key, openai>>
    /\ UNCHANGED <<text, chunk_size, chunk_overlap, collection, line, val,
                   label_patterns, multiline>>

SpecStructured == InitStructured /\ [][CallExtractStructuredData]_vars

\* No client: no key, the placeholder key, or a constructor that raises
NoClient == api_key \in {<<>>, <<"y","o","u","r","-","o","p","e","n","a","i","-","a","p","i","-","k","e","y","-","h","e","r","e">>} \/ openai.client.exc # ""
\* The LLM path raises
LlmFails == ~NoClient /\ openai.completion.exc # ""

\* C29: once the raw text is loaded, extract_structured_data returns the
\* result of the regex pipeline on the whole raw text whenever there is no
\* OpenAI client or the LLM path raises, and raises nothing; the regex
\* pipeline does not run when the LLM path returns
C29_LocalFallback ==
    pc = "structured_done" =>
        /\ ret.exc = ""
        /\ (NoClient \/ LlmFails) =>
              /\ ret = ExtractWithRegexPipeline(<<"d","o","c","-","1">>, text)
              /\ result = ret.value.shipment_data
        /\ ~(NoClient \/ LlmFails) =>
              /\ result = None
              /\ ret.value.extraction_notes[1] = <<"E","x","t","r","a","c","t","i","o","n"," ","m","e","t","h","o","d",":"," ","L","L","M","-","b","a","s","e","d"," ","(","O","p","e","n","A","I",")">>
              /\ llm_text = SubSeq(text, 1, Min(Len(text), max_chars))

\* The LLM path has raised on a text longer than the cut, and the rate beyond
\* the cut has been extracted
C29_Witness ==
    /\ pc = "structured_done"
    /\ api_key = <<"s","k","-","t","e","s","t">>
    /\ openai = [client |-> Return(OpenAIClient), completion |-> Raise("JSONDecodeError")]
    /\ text = <<"S","h","i","p","p","e","r",":"," ","A","c","m","e"," ","C","o","r","p","\n","C","o","n","s","i","g","n","e","e",":"," ","B","e","t","a"," ","L","L","C","\n","R","a","t","e",":"," ","$","1",",","5","0","0",".","0","0">>
    /\ llm_text = <<"S","h","i","p","p","e","r",":"," ","A","c","m","e"," ","C","o","r","p","\n","C","o","n","s","i","g","n","e","e",":"," ","B","e","t","a"," ","L","L","C","\n","R">>
    /\ ret.exc = "" /\ ret.value.shipment_data["rate"] = <<"1","5","0","0",".","0","0">>
(***************************************************************************)
(* The whole model: any of the calls above                                 *)
(***************************************************************************)
\* Every text the extraction is called on
ExtractTexts == LinesTexts(WeightPhrases, MaxPhrases)
                   \cup LinesTexts(CurrencyPhrases, MaxPhrases)
                   \cup LinesTexts(KeywordPhrases, MaxPhrases)
                   \cup LinesTexts(LengthPhrases, MaxPhrases)
                   \cup LinesTexts(NotesPhrases, MaxPhrases)
                   \cup LinesTexts(ShipperPhrases, MaxPhrases)
                   \cup LinesTexts(MalformedPhrases, MaxPhrases) \cup CallTexts
NextExtract == NextNotes \/ NewCall

Init == InitChunk \/ InitBoundary \/ InitJunk \/ InitLabel \/ InitRate
           \/ InitExtract(ExtractTexts) \/ InitRow
           \/ InitRetrieval \/ InitCoverage \/ InitAgreement \/ InitComposite
           \/ InitGuardrails \/ InitLookahead \/ InitStructured
Next == NextChunk \/ NextBoundary \/ NextJunk \/ NextLabel \/ NextRate
           \/ NextExtract \/ CallParseCarrierFromRow
           \/ CallComputeRetrievalConfidence \/ CallComputeAnswerCoverage
           \/ CallComputeChunkAgreement \/ CallComputeCompositeConfidence
           \/ CallCheckGuardrails \/ CallFindNextValueLine \/ CallExtractStructuredData
Spec == Init /\ [][Next]_vars
====
